---- MODULE Spec2Model ----
(***************************************************************************)
(* A model of the ragc Apollo Guidance Computer emulator: the CPU core     *)
(* (ragc-core/src/cpu.rs), its decoder and instruction handlers, the       *)
(* memory map with its banked registers, and the DSKY wire codec           *)
(* (dsky-protocol/src/agc.rs).                                             *)
(*                                                                         *)
(* Words are naturals; every operator that models u8/u16/u32 arithmetic    *)
(* keeps the width of the Rust type it models.                             *)
(***************************************************************************)
EXTENDS Integers, Sequences, FiniteSets, TLC

VARIABLES
    cpu,        \* the fields of struct Cpu (cpu.rs 43-65) other than mem
    mem,        \* the MemoryMap the Cpu owns: registers, banks, RAM, edit, timers, ports
    per,        \* the two peripherals attached to the IoController
    rom,        \* the ROM image handed to MemoryMap::new
    build,      \* the build profile: whether integer overflow panics
    panicked,   \* the process has panicked (unwrap on Err, index out of bounds, overflow)
    last,       \* what the last operation was and the state it started from
    codec       \* the DSKY wire codec's inputs and outputs

vars == <<cpu, mem, per, rom, build, panicked, last, codec>>

-----------------------------------------------------------------------------
(* Bit operations on naturals *)

RECURSIVE BitAnd(_, _)
BitAnd(a, b) ==
    IF a = 0 \/ b = 0 THEN 0
    ELSE (a % 2) * (b % 2) + 2 * BitAnd(a \div 2, b \div 2)

RECURSIVE BitOr(_, _)
BitOr(a, b) ==
    IF a = 0 THEN b
    ELSE IF b = 0 THEN a
    ELSE (IF a % 2 = 1 \/ b % 2 = 1 THEN 1 ELSE 0) + 2 * BitOr(a \div 2, b \div 2)

RECURSIVE BitXor(_, _)
BitXor(a, b) ==
    IF a = 0 THEN b
    ELSE IF b = 0 THEN a
    ELSE ((a + b) % 2) + 2 * BitXor(a \div 2, b \div 2)

RECURSIVE Pow2(_)
Pow2(n) == IF n = 0 THEN 1 ELSE 2 * Pow2(n - 1)

Shr(a, n) == a \div Pow2(n)

\* a << n in a u16
Shl16(a, n) == (a * Pow2(n)) % 65536

\* !a in a u16
Not16(a) == 65535 - a

Bit(a, n) == (a \div Pow2(n)) % 2

None == [some |-> FALSE]

Some(x) == [some |-> TRUE, val |-> x]

-----------------------------------------------------------------------------
(* The DSKY wire codec: dsky-protocol/src/agc.rs *)

\* `x as u8`
AsU8(x) == x % 256

generate_dsky_packet(addr, data_val) ==
    LET header     == AsU8(BitOr(0, BitAnd(Shr(addr, 3), 31)))
        upper_bits == BitOr(BitOr(64, AsU8(BitAnd(addr, 7) * 8)),
                            AsU8(BitAnd(Shr(data_val, 12), 7)))
        middle     == BitOr(128, AsU8(BitAnd(Shr(data_val, 6), 63)))
        lower      == BitOr(192, AsU8(BitAnd(data_val, 63)))
    IN  <<header, upper_bits, middle, lower>>

\* the framing check of parse_dsky_packet with the last tag test left out
parse_valid_mut(packet) ==
    /\ BitAnd(packet[1], 192) = 0
    /\ BitAnd(packet[2], 192) = 64
    /\ BitAnd(packet[3], 192) = 128

parse_valid(packet) ==
    /\ BitAnd(packet[1], 192) = 0
    /\ BitAnd(packet[2], 192) = 64
    /\ BitAnd(packet[3], 192) = 128
    /\ BitAnd(packet[4], 192) = 192

parse_dsky_packet(packet) ==
    IF ~parse_valid(packet) THEN None
    ELSE LET combined == BitOr(BitOr(Shl16(BitAnd(packet[2], 7), 12),
                                     Shl16(BitAnd(packet[3], 63), 6)),
                               BitAnd(packet[4], 63))
             addr     == BitOr(Shl16(BitAnd(packet[1], 63), 3),
                               BitAnd(Shr(packet[2], 3), 7))
         IN  Some(<<addr, combined>>)

PacketNew(input) ==
    LET parsed == parse_dsky_packet(input)
    IN  IF parsed.some
        THEN [hw_packet |-> FALSE, io_addr |-> parsed.val[1], io_value |-> parsed.val[2]]
        ELSE [hw_packet |-> FALSE, io_addr |-> 0, io_value |-> 0]

PacketSerialize(p) == generate_dsky_packet(p.io_addr, p.io_value)

-----------------------------------------------------------------------------
(* Arrays that start zeroed are kept sparse: only the non-zero cells *)

EmptyArray == [k \in {} |-> 0]

Get(f, k) == IF k \in DOMAIN f THEN f[k] ELSE 0

Put(f, k, v) ==
    IF v = 0 THEN [x \in (DOMAIN f) \ {k} |-> f[x]]
    ELSE [x \in (DOMAIN f) \cup {k} |-> IF x = k THEN v ELSE f[x]]

-----------------------------------------------------------------------------
(* Word utilities: ragc-core/src/utils.rs *)

\* adjust_overflow leaving positive overflow as it is
adjust_overflow_mut(input) ==
    LET top == BitAnd(input, 49152)
    IN  IF top = 32768 THEN BitOr(input, 49152) ELSE input

adjust_overflow(input) ==
    LET top == BitAnd(input, 49152)
    IN  IF top = 32768 THEN BitOr(input, 49152)
        ELSE IF top = 16384 THEN BitAnd(input, 16383)
        ELSE input

extend_sign_bits(value) ==
    IF BitAnd(value, 16384) # 0 THEN BitOr(value, 32768) ELSE BitAnd(value, 32767)

\* add_s15 without the end-around carry
add_s15_mut(op1, op2) == BitAnd(op1 + op2, 32767)

add_s15(op1, op2) ==
    LET sum  == op1 + op2
        sum2 == IF BitAnd(sum, 32768) # 0 THEN sum + 1 ELSE sum
    IN  BitAnd(sum2, 32767)

\* the u32 sum of two u16 with the carry out of bit 15 added back (utils.rs add_s16,
\* and the same lines inlined in ad, ads and su)
add_s16(left, right) ==
    LET total  == left + right
        total2 == IF total >= 65536 THEN total + 1 ELSE total
    IN  total2 % 65536

-----------------------------------------------------------------------------
(* Registers: ragc-core/src/memory/registers.rs *)

REGISTER_ACCUMULATOR == 0
REGISTER_LINK == 1
REGISTER_MULTIPLIER == 2
REGISTER_RETURN == 2
REGISTER_ERASABLE_BANK == 3
REGISTER_FIXED_BANK == 4
REGISTER_COUNTER == 5
REGISTER_COMBINED_BANK == 6
REGISTER_NULL == 7
REGISTER_COUNTER_BACKUP == 13
REGISTER_INSTRUCTION == 15

RegistersNew ==
    [registers |-> [i \in 0..31 |-> 0], fixed_bank |-> 0, erasable_bank |-> 0]

\* refresh_bank_registers writing the erasable bits unshifted into the combined register
refresh_bank_registers_mut(r) ==
    LET erasable_value == Shl16(BitAnd(r.erasable_bank, 7), 8)
        fixed_value    == Shl16(BitAnd(r.fixed_bank, 31), 10)
        combined_bank_value == BitOr(erasable_value, fixed_value)
    IN  [r EXCEPT !.registers =
            [@ EXCEPT ![REGISTER_ERASABLE_BANK] = erasable_value,
                      ![REGISTER_FIXED_BANK]    = fixed_value,
                      ![REGISTER_COMBINED_BANK] = combined_bank_value]]

refresh_bank_registers(r) ==
    LET erasable_value == Shl16(BitAnd(r.erasable_bank, 7), 8)
        fixed_value    == Shl16(BitAnd(r.fixed_bank, 31), 10)
        combined_bank_value == BitOr(Shr(erasable_value, 8), fixed_value)
    IN  [r EXCEPT !.registers =
            [@ EXCEPT ![REGISTER_ERASABLE_BANK] = erasable_value,
                      ![REGISTER_FIXED_BANK]    = fixed_value,
                      ![REGISTER_COMBINED_BANK] = combined_bank_value]]

\* Registers::read without the 12-bit arm of register 5
RegistersRead_mut(r, address_offset) ==
    IF address_offset \in {REGISTER_ACCUMULATOR, REGISTER_MULTIPLIER}
        THEN r.registers[address_offset]
    ELSE IF address_offset = REGISTER_NULL THEN 0
    ELSE BitAnd(r.registers[address_offset], 32767)

RegistersRead(r, address_offset) ==
    IF address_offset \in {REGISTER_ACCUMULATOR, REGISTER_MULTIPLIER}
        THEN r.registers[address_offset]
    ELSE IF address_offset = REGISTER_COUNTER
        THEN BitAnd(r.registers[address_offset], 4095)
    ELSE IF address_offset = REGISTER_NULL THEN 0
    ELSE BitAnd(r.registers[address_offset], 32767)

RegistersWrite(r, address_offset, new_value) ==
    IF address_offset = REGISTER_COMBINED_BANK THEN
        refresh_bank_registers(
            [r EXCEPT !.erasable_bank = BitAnd(new_value, 7),
                      !.fixed_bank    = Shr(BitAnd(new_value, 31744), 10)])
    ELSE IF address_offset = REGISTER_FIXED_BANK THEN
        refresh_bank_registers(
            [r EXCEPT !.fixed_bank = Shr(BitAnd(new_value, 31744), 10)])
    ELSE IF address_offset = REGISTER_ERASABLE_BANK THEN
        refresh_bank_registers(
            [r EXCEPT !.erasable_bank = Shr(BitAnd(new_value, 1792), 8)])
    ELSE IF address_offset = REGISTER_NULL THEN r
    ELSE LET masked == IF address_offset = REGISTER_COUNTER
                       THEN BitAnd(new_value, 4095) ELSE BitAnd(new_value, 32767)
             r1 == [r EXCEPT !.registers[address_offset] = masked]
         \* line 94 stores the unmasked value over the masked one
         IN  [r1 EXCEPT !.registers[address_offset] = new_value]

-----------------------------------------------------------------------------
(* Erasable memory: ragc-core/src/memory/memory.rs *)

RamRead(ram, bank_index, address_offset) ==
    IF bank_index = 0 /\ address_offset = REGISTER_ACCUMULATOR
        THEN Get(ram, <<bank_index, address_offset>>)
    ELSE IF bank_index = 0 /\ address_offset = REGISTER_MULTIPLIER
        THEN Get(ram, <<bank_index, address_offset>>)
    ELSE BitAnd(Get(ram, <<bank_index, address_offset>>), 32767)

RamWrite(ram, bank_index, address_offset, value) ==
    IF bank_index = 0 /\ address_offset = REGISTER_ACCUMULATOR
        THEN Put(ram, <<bank_index, address_offset>>, value)
    ELSE IF bank_index = 0 /\ address_offset = REGISTER_MULTIPLIER
        THEN Put(ram, <<bank_index, address_offset>>, value)
    ELSE Put(ram, <<bank_index, address_offset>>, BitAnd(value, 32767))

-----------------------------------------------------------------------------
(* Fixed memory: ragc-core/src/memory/rom.rs.  The image is the byte pairs of
   the ROM file; a cell the image does not list holds <<0, 0>>. *)

STORAGE_SEGMENTS == 36
STORAGE_SEGMENT_SIZE == 1024

\* BANK_MAPPING without the swap of the first four banks
BANK_MAPPING_mut(b) == b

BANK_MAPPING(b) == IF b = 0 THEN 2 ELSE IF b = 1 THEN 3 ELSE IF b = 2 THEN 0
                   ELSE IF b = 3 THEN 1 ELSE b

\* u16::from_be of the two bytes as they lie in memory
from_be(bytes) == bytes[1] * 256 + bytes[2]

RomCell(image, bank, off) ==
    IF <<bank, off>> \in DOMAIN image THEN image[<<bank, off>>] ELSE <<0, 0>>

RomRead(image, memory_bank, bank_address) ==
    IF memory_bank >= STORAGE_SEGMENTS \/ bank_address >= STORAGE_SEGMENT_SIZE THEN 0
    ELSE BitAnd(Shr(from_be(RomCell(image, BANK_MAPPING(memory_bank), bank_address)), 1),
                32767)

-----------------------------------------------------------------------------
(* Edit registers: ragc-core/src/memory/edit_registers.rs *)

EditNew == [cycle_right |-> 0, shift_reg |-> 0, cycle_left |-> 0, edit_op |-> 0]

EditRead(e, address) ==
    IF address = 18 THEN e.cycle_left
    ELSE IF address = 16 THEN e.cycle_right
    ELSE IF address = 17 THEN e.shift_reg
    ELSE IF address = 19 THEN e.edit_op
    ELSE 0

\* cycle-left losing the bit shifted out instead of wrapping it
EditWrite_mut(e, address, value) ==
    LET masked_value == BitAnd(value, 32767)
    IN  IF address = 18 THEN
            [e EXCEPT !.cycle_left = BitAnd(Shl16(masked_value, 1), 32767)]
        ELSE IF address = 16 THEN
            LET low_bit == BitAnd(masked_value, 1)
            IN  [e EXCEPT !.cycle_right = BitOr(Shr(masked_value, 1), Shl16(low_bit, 14))]
        ELSE IF address = 17 THEN
            LET sign_bit == BitAnd(masked_value, 16384)
            IN  [e EXCEPT !.shift_reg = BitOr(Shr(masked_value, 1), sign_bit)]
        ELSE IF address = 19 THEN
            [e EXCEPT !.edit_op = BitAnd(Shr(masked_value, 7), 127)]
        ELSE e

EditWrite(e, address, value) ==
    LET masked_value == BitAnd(value, 32767)
    IN  IF address = 18 THEN
            LET sign_bit == BitAnd(masked_value, 16384)
            IN  [e EXCEPT !.cycle_left =
                    BitOr(BitAnd(Shl16(masked_value, 1), 32767), Shr(sign_bit, 14))]
        ELSE IF address = 16 THEN
            LET low_bit == BitAnd(masked_value, 1)
            IN  [e EXCEPT !.cycle_right = BitOr(Shr(masked_value, 1), Shl16(low_bit, 14))]
        ELSE IF address = 17 THEN
            LET sign_bit == BitAnd(masked_value, 16384)
            IN  [e EXCEPT !.shift_reg = BitOr(Shr(masked_value, 1), sign_bit)]
        ELSE IF address = 19 THEN
            [e EXCEPT !.edit_op = BitAnd(Shr(masked_value, 7), 127)]
        ELSE e

-----------------------------------------------------------------------------
(* Timers and interrupt flags: ragc-core/src/memory/clock.rs *)

ClocksNew ==
    [counter |-> 0, rupt_counter |-> 1, interrupt_flags |-> 0,
     timer1 |-> 0, timer3 |-> 0, timer4 |-> 0]

update_interrupt_flags(t, flags) ==
    LET f == BitOr(t.interrupt_flags, flags)
    IN  IF f = 3 THEN [t EXCEPT !.interrupt_flags = 0, !.rupt_counter = 0]
        ELSE [t EXCEPT !.interrupt_flags = f]

ClocksRead(t, address) ==
    IF address = 21 THEN BitAnd(t.timer1, 16383)
    ELSE IF address = 22 THEN t.timer3
    ELSE IF address = 23 THEN t.timer4
    ELSE 0

ClocksWrite(t, address, value) ==
    IF address = 21 THEN [t EXCEPT !.timer1 = value]
    ELSE IF address = 22 THEN [t EXCEPT !.timer3 = BitAnd(value, 32767)]
    ELSE IF address = 23 THEN [t EXCEPT !.timer4 = BitAnd(value, 32767)]
    ELSE t

-----------------------------------------------------------------------------
(* Special registers: ragc-core/src/memory/special_registers.rs.  No code
   assigns the fields after new(), so every read yields 0 and a write changes
   nothing. *)

SpecialRead(register_address) == 0

-----------------------------------------------------------------------------
(* The memory map: ragc-core/src/memory/mod.rs *)

MemoryMapNew ==
    [regs   |-> RegistersNew,
     ram    |-> EmptyArray,
     edit   |-> EditNew,
     timers |-> ClocksNew,
     port_map |-> (24 :> 16383) @@ (25 :> 32767) @@ (26 :> 32767) @@ (27 :> 32767)]

MapRead(m, image, idx) ==
    IF idx \in 0..15 THEN RegistersRead(m.regs, BitAnd(idx, 255))
    ELSE IF idx \in 16..19 THEN EditRead(m.edit, idx)
    ELSE IF idx \in 20..25 THEN ClocksRead(m.timers, idx)
    ELSE IF idx \in 26..48 THEN SpecialRead(idx)
    ELSE IF idx \in 49..1023 THEN
        IF Shr(idx, 8) = 3
        THEN RamRead(m.ram, m.regs.erasable_bank, BitAnd(idx, 255))
        ELSE RamRead(m.ram, Shr(idx, 8), BitAnd(idx, 255))
    ELSE IF idx \in 1024..4095 THEN
        IF Shr(idx, 10) = 1
        THEN RomRead(image, m.regs.fixed_bank, BitAnd(idx, 1023))
        ELSE RomRead(image, Shr(idx, 10), BitAnd(idx, 1023))
    ELSE 0

\* MemoryMap::write with a fixed address wrapping into erasable memory
MapWrite_rom_mut(m, idx, val) ==
    IF idx \in 0..15 THEN [m EXCEPT !.regs = RegistersWrite(@, idx, val)]
    ELSE IF idx \in 16..19 THEN [m EXCEPT !.edit = EditWrite(@, idx, val)]
    ELSE IF idx \in 20..25 THEN [m EXCEPT !.timers = ClocksWrite(@, idx, val)]
    ELSE IF idx \in 26..48 THEN m
    ELSE IF idx \in 49..1023 THEN
        IF Shr(idx, 8) = 3
        THEN [m EXCEPT !.ram = RamWrite(@, m.regs.erasable_bank, BitAnd(idx, 255), val)]
        ELSE [m EXCEPT !.ram = RamWrite(@, Shr(idx, 8), BitAnd(idx, 255), val)]
    ELSE [m EXCEPT !.ram = RamWrite(@, Shr(idx, 8) % 4, BitAnd(idx, 255), val)]

\* MemoryMap::write without the bank substitution in the erasable window
MapWrite_mut(m, idx, val) ==
    IF idx \in 0..15 THEN [m EXCEPT !.regs = RegistersWrite(@, idx, val)]
    ELSE IF idx \in 16..19 THEN [m EXCEPT !.edit = EditWrite(@, idx, val)]
    ELSE IF idx \in 20..25 THEN [m EXCEPT !.timers = ClocksWrite(@, idx, val)]
    ELSE IF idx \in 26..48 THEN m
    ELSE IF idx \in 49..1023 THEN
        IF Shr(idx, 8) = 3
        THEN [m EXCEPT !.ram = RamWrite(@, Shr(idx, 8), BitAnd(idx, 255), val)]
        ELSE [m EXCEPT !.ram = RamWrite(@, Shr(idx, 8), BitAnd(idx, 255), val)]
    \* a ROM write only logs a warning
    ELSE m

MapWrite(m, idx, val) ==
    IF idx \in 0..15 THEN [m EXCEPT !.regs = RegistersWrite(@, idx, val)]
    ELSE IF idx \in 16..19 THEN [m EXCEPT !.edit = EditWrite(@, idx, val)]
    ELSE IF idx \in 20..25 THEN [m EXCEPT !.timers = ClocksWrite(@, idx, val)]
    ELSE IF idx \in 26..48 THEN m
    ELSE IF idx \in 49..1023 THEN
        IF Shr(idx, 8) = 3
        THEN [m EXCEPT !.ram = RamWrite(@, m.regs.erasable_bank, BitAnd(idx, 255), val)]
        ELSE [m EXCEPT !.ram = RamWrite(@, Shr(idx, 8), BitAnd(idx, 255), val)]
    \* a ROM write only logs a warning
    ELSE m

-----------------------------------------------------------------------------
(* The downlink peripheral: ragc-peripherals/src/vagc/downrupt.rs.  tx is the
   unbounded channel to the forwarder thread. *)

DownruptNew == [tx |-> <<>>, word_order |-> FALSE]

DownruptRead(d, channel_idx) ==
    IF channel_idx = 11 THEN (IF d.word_order THEN 64 ELSE 0)
    ELSE IF channel_idx \in 24..29 THEN 32767
    ELSE 0

DownruptWrite(d, channel_idx, value) ==
    IF channel_idx = 11 THEN [d EXCEPT !.word_order = (BitAnd(value, 64) # 0)]
    ELSE IF channel_idx \in {28, 29}
        THEN [d EXCEPT !.tx = Append(@, generate_dsky_packet(channel_idx, value))]
    ELSE d

DownruptIsInterrupt(d) == 0

(* The display peripheral (ragc_peripherals::dsky::DskyDisplay) is known only
   through the IoPeriph trait: read returns the word the unit currently
   presents, is_interrupt the mask of interrupts it requests. *)

DisplayNew == [word |-> 0, irq |-> 0]

DisplayRead(u, port) == u.word

DisplayWrite(u, port, value) == u

DisplayIsInterrupt(u) == u.irq

PeripheralsNew == [downlink |-> DownruptNew, display |-> DisplayNew]

-----------------------------------------------------------------------------
(* The I/O controller: ragc-core/src/memory/io.rs *)

PORT_MAP_SIZE == 256

\* the channels read_port answers itself; every other one reads port_map[port]
ReadPortNamed == {3, 4, 5, 6, 8, 9, 10, 11, 12, 13, 14, 25, 26, 27, 28, 29, 115}

ReadPortPanics(port) == port \notin ReadPortNamed /\ port >= PORT_MAP_SIZE

read_port(m, p, port) ==
    IF port \in {4, 3} THEN 0
    ELSE IF port \in {5, 6} THEN Get(m.port_map, port)
    ELSE IF port = 8 THEN 0
    ELSE IF port = 9 THEN Get(m.port_map, 9)
    ELSE IF port = 10 THEN Get(m.port_map, 10)
    ELSE IF port = 11 THEN BitAnd(Get(m.port_map, 11), 18383)
    ELSE IF port = 12 THEN Get(m.port_map, 12)
    ELSE IF port = 13 THEN DisplayRead(p.display, port)
    ELSE IF port = 14 THEN 0
    ELSE IF port = 25 THEN 32767
    ELSE IF port = 26
        THEN BitOr(DisplayRead(p.display, port), BitAnd(Get(m.port_map, 26), 24575))
    ELSE IF port = 27 THEN 32767
    ELSE IF port \in {28, 29} THEN DownruptRead(p.downlink, port)
    ELSE IF port = 115 THEN DisplayRead(p.display, port)
    ELSE Get(m.port_map, port)

WritePortPanics(port) == port \notin {9, 11, 26} /\ port >= PORT_MAP_SIZE

\* the peripherals after write_port has mirrored the write to them
write_port_per(p, port, value) ==
    [display  |-> DisplayWrite(p.display, port, value),
     downlink |-> DownruptWrite(p.downlink, port, value)]

\* the port array after write_port
write_port_map(m, port, value) ==
    IF port = 9 THEN [m EXCEPT !.port_map = Put(@, 9, value)]
    ELSE IF port = 11 THEN [m EXCEPT !.port_map = Put(@, 11, value)]
    ELSE IF port = 26 THEN m
    ELSE [m EXCEPT !.port_map = Put(@, port, value)]

get_interrupt_status(p) ==
    BitOr(BitOr(0, DisplayIsInterrupt(p.display)), DownruptIsInterrupt(p.downlink))

-----------------------------------------------------------------------------
(* The machine a handler works on: X.c the Cpu's fields, X.mem its memory
   map, X.per the peripherals, X.panic whether the call has panicked and
   X.cycles the u16 the handler returns. *)

\* With(v, LAMBDA x : e) is e with x standing for the value v: a `let x = v;`
With(v, F(_)) == F(v)

Rd(X, idx) == MapRead(X.mem, rom, idx)

Wr(X, idx, val) == [X EXCEPT !.mem = MapWrite(@, idx, val)]

\* MemoryMap::read_io (mod.rs 108-126)
read_io(X, idx) ==
    IF idx \in {1, 2}
        THEN RegistersRead(X.mem.regs,
                           IF idx = 1 THEN REGISTER_LINK ELSE REGISTER_MULTIPLIER)
    ELSE IF idx \in {3, 4}
        THEN BitAnd(IF idx = 3 THEN Shr(X.mem.timers.counter, 14)
                    ELSE X.mem.timers.counter, 16383)
    ELSE read_port(X.mem, X.per, idx)

read_io_panics(idx) == idx \notin {1, 2, 3, 4} /\ ReadPortPanics(idx)

\* the timers after write_io has set the downlink word flags (mod.rs 92-99)
write_io_timers(t, idx) ==
    IF idx \in {28, 29} THEN update_interrupt_flags(t, IF idx = 28 THEN 1 ELSE 2)
    ELSE t

\* one call made while a channel write is carried out: who receives it, with
\* which channel and value
Call(to, port, value) == [to |-> to, port |-> port, value |-> value]

\* the calls IoController::write_port makes, in order (io.rs 113-130): both
\* peripherals, then the store into the port array, which CHAN32 skips and
\* which is out of bounds for a channel beyond the array
write_port_calls(port, value) ==
    <<Call("display", port, value), Call("downlink", port, value)>>
        \o (IF port = 26 THEN <<>>
            ELSE IF WritePortPanics(port) THEN <<Call("panic", port, value)>>
            ELSE <<Call("port_map", port, value)>>)

\* the calls MemoryMap::write_io makes, in order (mod.rs 79-105), headed by
\* the call of write_io itself
write_io_calls(idx, value) ==
    <<Call("write_io", idx, value)>>
        \o (IF idx \in {1, 2} THEN <<Call("regs", idx, value)>>
            ELSE (IF idx \in {28, 29} THEN <<Call("timers", idx, value)>> ELSE <<>>)
                    \o write_port_calls(idx, value))

\* MemoryMap::write_io (mod.rs 79-105) with IoController::write_port
write_io(X, idx, value) ==
    IF idx \in {1, 2}
        THEN [X EXCEPT !.mem.regs =
                 RegistersWrite(@, IF idx = 1 THEN REGISTER_LINK
                                   ELSE REGISTER_MULTIPLIER, value),
                       !.calls = @ \o write_io_calls(idx, value)]
    ELSE [X EXCEPT !.mem   = write_port_map([@ EXCEPT !.timers = write_io_timers(@, idx)],
                                            idx, value),
                   !.per   = write_port_per(@, idx, value),
                   !.panic = @ \/ WritePortPanics(idx),
                   !.calls = @ \o write_io_calls(idx, value)]

IsWide(idx) == idx \in {REGISTER_ACCUMULATOR, REGISTER_MULTIPLIER}

read_s16(X, idx) ==
    With(Rd(X, idx), LAMBDA v : IF IsWide(idx) THEN v ELSE extend_sign_bits(v))

read_s15(X, idx) ==
    With(Rd(X, idx),
         LAMBDA v : BitAnd(IF IsWide(idx) THEN adjust_overflow(v) ELSE v, 32767))

write_s16(X, idx, value) ==
    Wr(X, idx, IF IsWide(idx) THEN value ELSE BitAnd(adjust_overflow(value), 32767))

write_s15(X, idx, value) ==
    Wr(X, idx, IF IsWide(idx) THEN extend_sign_bits(value) ELSE BitAnd(value, 32767))

write_dp(X, idx, val) ==
    With(BitAnd(Shr(val, 14), 32767), LAMBDA upper :
        write_s15(write_s15(X, idx, upper), idx + 1,
                  BitOr(BitAnd(val, 16383), BitAnd(upper, 16384))))

\* self.ir = self.read(val)
fetch(X, val) == [X EXCEPT !.c.ir = Rd(X, val)]

update_pc(X, val) == fetch(Wr(X, REGISTER_COUNTER, val), val)

\* the read and the write of check_editing on an edit register
re_edit(X, k) == With(read_s15(X, k), LAMBDA val : write_s15(X, k, val))

\* check_editing that never re-writes
check_editing_mut(X, k) == X

check_editing(X, k) == IF k \in {16, 17, 18, 19} THEN re_edit(X, k) ELSE X

calculate_instr_data(X) ==
    With(add_s15(X.c.ir, X.c.idx_val),
         LAMBDA inst_data : IF X.c.ec_flag THEN BitOr(inst_data, 32768) ELSE inst_data)

-----------------------------------------------------------------------------
(* The decoder: ragc-core/src/decoder.rs and instructions/mod.rs *)

get_opcode(data) == BitAnd(Shr(data, 12), 7)

get_data(data) == BitAnd(data, 4095)

get_address(data) == BitAnd(data, 4095)

get_address_ram(data) == BitAnd(data, 1023)

is_extended(data) == BitAnd(data, 32768) = 32768

Instr(pc, data, mnem, extrabits, mct) ==
    [ok |-> TRUE, pc |-> pc, data |-> data, mnem |-> mnem,
     extrabits |-> extrabits, mct |-> mct]

DecodeErr(pc, data) ==
    [ok |-> FALSE, pc |-> pc, data |-> data, mnem |-> "INVALID",
     extrabits |-> None, mct |-> 1]

decoder_extended(pc, data) ==
    LET opbits == get_opcode(data)
        exb3 == Shr(BitAnd(data, 3584), 9)
        exb2 == Shr(BitAnd(data, 3072), 10)
    IN  CASE opbits = 0 ->
                Instr(pc, data,
                      <<"READ", "WRITE", "RAND", "WAND", "ROR", "WOR", "RXOR",
                        "EDRUPT">>[exb3 + 1],
                      Some(exb3), IF exb3 = 1 THEN 2 ELSE 1)
          [] opbits = 1 -> Instr(pc, data, "INVALID", Some(exb2), 1)
          [] opbits = 2 ->
                IF exb2 = 2 THEN Instr(pc, data, "AUG", Some(exb2), 1)
                ELSE IF exb2 = 3 THEN Instr(pc, data, "DIM", Some(exb2), 1)
                ELSE DecodeErr(pc, data)
          [] opbits = 3 -> Instr(pc, data, "DCA", None, 1)
          [] opbits = 4 -> Instr(pc, data, "DCS", None, 1)
          [] opbits = 5 -> Instr(pc, data, "INDEX", None, 1)
          [] opbits = 6 ->
                Instr(pc, data, IF exb2 = 0 THEN "SU" ELSE "BZMF", Some(exb2), 1)
          [] opbits = 7 -> Instr(pc, data, "MP", None, 1)

decoder_simple(pc, data) ==
    LET opbits == get_opcode(data)
        exb == Shr(BitAnd(data, 3072), 10)
        low == BitAnd(data, 4095)
    IN  CASE opbits = 0 ->
                Instr(pc, data,
                      IF low = 3 THEN "RELINT" ELSE IF low = 4 THEN "INHINT"
                      ELSE IF low = 6 THEN "EXTEND" ELSE "TC",
                      None, 1)
          [] opbits = 1 ->
                Instr(pc, data, IF exb = 0 THEN "CCS" ELSE "TCF", Some(exb), 1)
          [] opbits = 2 ->
                Instr(pc, data, <<"DAS", "LXCH", "INCR", "ADS">>[exb + 1], Some(exb), 1)
          [] opbits = 3 -> Instr(pc, data, "CA", None, 2)
          [] opbits = 4 -> Instr(pc, data, "CS", None, 2)
          [] opbits = 5 ->
                IF exb = 0
                THEN Instr(pc, data, IF low = 15 THEN "RESUME" ELSE "INDEX", Some(exb), 1)
                ELSE IF exb = 1 THEN Instr(pc, data, "DXCH", Some(exb), 1)
                ELSE IF exb = 2 THEN Instr(pc, data, "TS", Some(exb), 2)
                ELSE Instr(pc, data, "XCH", Some(exb), 1)
          [] opbits = 6 -> Instr(pc, data, "AD", None, 2)
          [] opbits = 7 -> Instr(pc, data, "MASK", None, 1)

\* decoder reading the basic table whatever bit 15 is
decoder_mut(pc, data) == decoder_simple(pc, data)

decoder(pc, data) ==
    IF is_extended(data) THEN decoder_extended(pc, data) ELSE decoder_simple(pc, data)

-----------------------------------------------------------------------------
(* Instruction handlers: ragc-core/src/instructions/instructions.rs.  Each
   takes the machine and the decoded word and yields the machine with
   X.cycles set to the value the handler returns. *)

Ret(X, n) == [X EXCEPT !.cycles = n]

Panic(X) == [X EXCEPT !.panic = TRUE]

\* AD dropping the carry out of bit 15
ad_mut(X, data) ==
    With(read_s16(X, REGISTER_ACCUMULATOR), LAMBDA a :
    With(read_s16(X, get_address(data)), LAMBDA b :
    With(write_s16(X, REGISTER_ACCUMULATOR, (a + b) % 65536), LAMBDA X1 :
        Ret(check_editing(X1, get_address(data)), 2))))

ad(X, data) ==
    With(read_s16(X, REGISTER_ACCUMULATOR), LAMBDA a :
    With(read_s16(X, get_address(data)), LAMBDA b :
    With(write_s16(X, REGISTER_ACCUMULATOR, add_s16(a, b)), LAMBDA X1 :
        Ret(check_editing(X1, get_address(data)), 2))))

ads(X, data) ==
    With(read_s16(X, REGISTER_ACCUMULATOR), LAMBDA x :
    With(read_s16(X, get_address_ram(data)), LAMBDA y :
    With(add_s16(x, y), LAMBDA res :
    With(write_s16(X, REGISTER_ACCUMULATOR, res), LAMBDA X1 :
        Ret(write_s16(X1, get_address_ram(data), res), 2)))))

\* the magnitude mp takes of a 15-bit operand
mp_mag(val) ==
    IF BitAnd(val, 16384) # 0 THEN BitAnd(Not16(val), 16383) ELSE BitAnd(val, 16383)

\* mp_output without the special case for a zero product
mp_output_mut(s1, mag1, s2, mag2, prod) ==
    IF s2 # s1 THEN 536870911 - prod ELSE prod

\* the 28-bit product with its sign applied (instructions.rs mp)
mp_output(s1, mag1, s2, mag2, prod) ==
    IF s2 # s1
    THEN IF prod \in {0, 268435455}
         THEN (IF BitOr(mag1, mag2) = 0 THEN 0 ELSE 536870911)
         ELSE 536870911 - prod  \* (!output) & 0o3777777777, output < 2^28
    ELSE prod

mp(X, data) ==
    With(read_s15(X, REGISTER_ACCUMULATOR), LAMBDA val1 :
    With(read_s15(X, get_address(data)), LAMBDA val2 :
    With(mp_mag(val1), LAMBDA mag1 :
    With(mp_mag(val2), LAMBDA mag2 :
    With(BitAnd(mag1 * mag2, 268435455), LAMBDA prod :
        Ret(write_dp(X, REGISTER_ACCUMULATOR,
                     mp_output(BitAnd(val1, 16384), mag1,
                               BitAnd(val2, 16384), mag2, prod)), 3))))))

\* the successor incr stores for the word curr of register reg
incr_next(reg, curr) ==
    IF IsWide(reg)
    THEN IF curr = 32767 THEN BitAnd(curr, 65535)
         ELSE IF curr = 65535 THEN 1
         ELSE BitAnd(curr + 1, 65535)
    ELSE IF curr = 16383 THEN 0
         ELSE IF curr = 32767 THEN 1
         ELSE BitAnd(curr + 1, 32767)

incr(X, data) ==
    With(Rd(X, get_address_ram(data)), LAMBDA curr :
        Ret(Wr(X, get_address_ram(data), incr_next(get_address_ram(data), curr)), 2))

su(X, data) ==
    With(read_s16(X, REGISTER_ACCUMULATOR), LAMBDA a :
    With(Not16(read_s16(X, get_address_ram(data))), LAMBDA b :
    With(write_s16(X, REGISTER_ACCUMULATOR, add_s16(a, b)), LAMBDA X1 :
        Ret(check_editing(X1, get_address_ram(data)), 2))))

\* the word dim stores for a val other than +0 and -0
\* dim storing +0 when a positive word runs out
dim_next_mut(val) ==
    IF BitAnd(val, 16384) # 0 THEN val + 1 ELSE val - 1

dim_next(val) ==
    IF BitAnd(val, 16384) # 0 THEN val + 1
    ELSE IF val - 1 = 0 THEN 65535 ELSE val - 1

dim(X, data) ==
    With(read_s16(X, get_address_ram(data)), LAMBDA val :
        IF val \in {65535, 0} THEN Ret(X, 2)
        ELSE Ret(write_s16(X, get_address_ram(data), dim_next(val)), 2))

\* the quotient dv stores when both halves of the dividend are a zero
dv_null_quotient(d, num_high, num_low) ==
    IF BitXor(IF num_high \in {32767, 0} THEN BitAnd(num_low, 16384)
              ELSE BitAnd(num_high, 16384),
              BitAnd(d, 16384)) = 0
    THEN 16383 ELSE 16384

dv(X, data) ==
    With(read_s15(X, get_address_ram(data)), LAMBDA d :
    With(read_s15(X, REGISTER_ACCUMULATOR), LAMBDA num_high :
    With(read_s15(X, REGISTER_LINK), LAMBDA num_low :
        IF num_high \in {32767, 0} /\ num_low \in {32767, 0}
        THEN Ret(write_s15(X, REGISTER_ACCUMULATOR,
                           dv_null_quotient(d, num_high, num_low)), 6)
        ELSE Ret(X, 6))))

\* BZF charging 1 cycle whether or not it branches
bzf_mut(X, data) ==
    With([X EXCEPT !.c.ec_flag = FALSE], LAMBDA X0 :
        IF Rd(X0, REGISTER_ACCUMULATOR) \in {0, 65535}
        THEN Ret(fetch(Wr(X0, REGISTER_COUNTER, BitAnd(get_data(data), 4095)),
                       BitAnd(get_data(data), 4095)), 1)
        ELSE Ret(X0, 1))

\* BZF testing the low 15 bits of the accumulator
bzf_low15_mut(X, data) ==
    With([X EXCEPT !.c.ec_flag = FALSE], LAMBDA X0 :
        IF Rd(X0, REGISTER_ACCUMULATOR) % 32768 \in {0, 32767}
        THEN Ret(fetch(Wr(X0, REGISTER_COUNTER, BitAnd(get_data(data), 4095)),
                       BitAnd(get_data(data), 4095)), 1)
        ELSE Ret(X0, 2))

bzf(X, data) ==
    With([X EXCEPT !.c.ec_flag = FALSE], LAMBDA X0 :
        IF Rd(X0, REGISTER_ACCUMULATOR) \in {0, 65535}
        THEN Ret(fetch(Wr(X0, REGISTER_COUNTER, BitAnd(get_data(data), 4095)),
                       BitAnd(get_data(data), 4095)), 1)
        ELSE Ret(X0, 2))

tcf(X, data) ==
    Ret([update_pc(X, get_data(data)) EXCEPT !.c.ec_flag = FALSE], 1)

\* TC storing the target instead of the return address
tc_mut(X, data) ==
    With(update_pc(X, get_data(data)), LAMBDA X1 :
        Ret([Wr(X1, REGISTER_RETURN, Rd(X1, REGISTER_COUNTER))
                EXCEPT !.c.ec_flag = FALSE], 1))

tc(X, data) ==
    With(Rd(X, REGISTER_COUNTER), LAMBDA current_pc :
        Ret([Wr(update_pc(X, get_data(data)), REGISTER_RETURN, current_pc)
                EXCEPT !.c.ec_flag = FALSE], 1))

inhint(X, data) == Ret([X EXCEPT !.c.gint = FALSE], 1)

relint(X, data) == Ret([X EXCEPT !.c.gint = TRUE], 1)

edrupt(X, data) == Ret([X EXCEPT !.c.gint = FALSE], 3)

\* resume leaving the in-interrupt flag set
resume_mut(X, data) ==
    With(Rd(X, REGISTER_COUNTER_BACKUP), LAMBDA backup :
        IF backup = 0 /\ build.overflow_checks THEN Panic(X)
        ELSE With(Wr(X, REGISTER_COUNTER, (backup - 1) % 65536), LAMBDA X1 :
                Ret([X1 EXCEPT !.c.ir = Rd(X1, REGISTER_INSTRUCTION),
                               !.c.idx_val = 0,
                               !.c.gint = TRUE], 2)))

\* `read(..) - 1` is a u16 subtraction: it panics when overflow checks are
\* on and wraps when they are off
resume(X, data) ==
    With(Rd(X, REGISTER_COUNTER_BACKUP), LAMBDA backup :
        IF backup = 0 /\ build.overflow_checks THEN Panic(X)
        ELSE With(Wr(X, REGISTER_COUNTER, (backup - 1) % 65536), LAMBDA X1 :
                Ret([X1 EXCEPT !.c.ir = Rd(X1, REGISTER_INSTRUCTION),
                               !.c.idx_val = 0,
                               !.c.gint = TRUE,
                               !.c.is_irupt = FALSE], 2)))

\* the channel number an I/O instruction addresses
io_port(data) == BitAnd(get_data(data), 511)

\* the machine after the channel read of an I/O instruction
after_read_io(X, port) == IF read_io_panics(port) THEN Panic(X) ELSE X

\* what ror, rand, rxor, wor and wand combine: A with the channel's word,
\* 16 bits wide for channel 2 and 15 bits wide otherwise
CombineLeft(X0, port) ==
    IF port = 2 THEN read_s16(X0, REGISTER_ACCUMULATOR)
    ELSE read_s15(X0, REGISTER_ACCUMULATOR)

CombineRight(port, port_value) ==
    IF port = 2 THEN port_value ELSE BitAnd(port_value, 32767)

\* the write of the combined word to A
CombineStore(X0, port, result) ==
    IF port = 2 THEN write_s16(X0, REGISTER_ACCUMULATOR, result)
    ELSE write_s15(X0, REGISTER_ACCUMULATOR, result)

ror(X, data) ==
    With(read_io(X, io_port(data)), LAMBDA port_value :
    With(after_read_io(X, io_port(data)), LAMBDA X0 :
    With(BitOr(CombineLeft(X0, io_port(data)),
               CombineRight(io_port(data), port_value)), LAMBDA result :
        Ret(CombineStore(X0, io_port(data),
                         IF io_port(data) = 2 THEN result
                         ELSE BitAnd(result, 32767)), 2))))

rand(X, data) ==
    With(read_io(X, io_port(data)), LAMBDA port_value :
    With(after_read_io(X, io_port(data)), LAMBDA X0 :
    With(BitAnd(CombineLeft(X0, io_port(data)),
                CombineRight(io_port(data), port_value)), LAMBDA result :
        Ret(CombineStore(X0, io_port(data),
                         IF io_port(data) = 2 THEN result
                         ELSE BitAnd(result, 32767)), 2))))

rxor(X, data) ==
    With(read_io(X, io_port(data)), LAMBDA port_value :
    With(after_read_io(X, io_port(data)), LAMBDA X0 :
    With(BitXor(CombineLeft(X0, io_port(data)),
                CombineRight(io_port(data), port_value)), LAMBDA result :
        Ret(CombineStore(X0, io_port(data),
                         IF io_port(data) = 2 THEN result
                         ELSE BitAnd(result, 32767)), 2))))

\* wor and wand: the same, and the result is written back to the channel
wor(X, data) ==
    With(read_io(X, io_port(data)), LAMBDA port_data :
    With(after_read_io(X, io_port(data)), LAMBDA X0 :
    With(BitOr(CombineLeft(X0, io_port(data)),
               CombineRight(io_port(data), port_data)), LAMBDA new_value :
    With(CombineStore(X0, io_port(data), new_value), LAMBDA X1 :
        Ret(write_io(X1, io_port(data),
                     IF io_port(data) = 2 THEN new_value
                     ELSE BitAnd(new_value, 32767)), 2)))))

wand(X, data) ==
    With(read_io(X, io_port(data)), LAMBDA port_data :
    With(after_read_io(X, io_port(data)), LAMBDA X0 :
    With(BitAnd(CombineLeft(X0, io_port(data)),
                CombineRight(io_port(data), port_data)), LAMBDA new_value :
    With(CombineStore(X0, io_port(data), new_value), LAMBDA X1 :
        Ret(write_io(X1, io_port(data),
                     IF io_port(data) = 2 THEN new_value
                     ELSE BitAnd(new_value, 32767)), 2)))))

read_instr(X, data) ==
    With(read_io(X, io_port(data)), LAMBDA word :
        Ret(write_s16(after_read_io(X, io_port(data)), REGISTER_ACCUMULATOR,
                      IF io_port(data) = 2 THEN word ELSE extend_sign_bits(word)), 2))

write_instr(X, data) ==
    With(read_s16(X, REGISTER_ACCUMULATOR), LAMBDA d :
        Ret(write_io(X, io_port(data),
                     IF io_port(data) = 2 THEN d
                     ELSE BitAnd(adjust_overflow(d), 32767)), 2))

cs(X, data) ==
    With(BitAnd(Not16(read_s16(X, get_data(data))), 65535), LAMBDA inverted_value :
    With(write_s16(X, REGISTER_ACCUMULATOR, inverted_value), LAMBDA X1 :
        Ret(check_editing(X1, get_address(data)), 2)))

\* `get_address() - 1` is a usize subtraction: address 0 panics when overflow
\* checks are on; when they are off base_addr wraps to usize::MAX, which no
\* range of the memory map holds, and base_addr + 1 wraps back to 0
dcs(X, data) ==
    IF get_address(data) = 0 /\ build.overflow_checks THEN Panic(X)
    ELSE
    With(BitAnd(Not16(read_s16(X, get_address(data))), 65535), LAMBDA negated_low :
    With(Wr(X, REGISTER_LINK, negated_low), LAMBDA X1 :
    With(BitAnd(Not16(read_s16(X1, get_address(data) - 1)), 65535),
         LAMBDA negated_high :
    With(Wr(X1, REGISTER_ACCUMULATOR, negated_high), LAMBDA X2 :
    With(check_editing(X2, get_address(data)), LAMBDA X3 :
        Ret(check_editing(X3, get_address(data) - 1), 3))))))

dca(X, data) ==
    IF get_address(data) = 0 /\ build.overflow_checks THEN Panic(X)
    ELSE
    With(read_s16(X, get_address(data)), LAMBDA low_word :
    With(write_s16(X, REGISTER_LINK, low_word), LAMBDA X1 :
    With(read_s16(X1, get_address(data) - 1), LAMBDA high_word :
    With(write_s16(X1, REGISTER_ACCUMULATOR, high_word), LAMBDA X2 :
    With(check_editing(X2, get_address(data)), LAMBDA X3 :
        Ret(check_editing(X3, get_address(data) - 1), 3))))))

lxch(X, data) ==
    With(read_s16(X, REGISTER_LINK), LAMBDA l_reg_value :
    With(read_s16(X, get_address_ram(data)), LAMBDA mem_value :
    With(write_s16(X, REGISTER_LINK, mem_value), LAMBDA X1 :
        Ret(write_s16(X1, get_address_ram(data), l_reg_value), 2))))

ca(X, data) ==
    With(read_s16(X, get_data(data)), LAMBDA d :
    With(write_s16(X, REGISTER_ACCUMULATOR, d), LAMBDA X1 :
        Ret(check_editing(X1, get_data(data)), 2)))

qxch(X, data) ==
    With(read_s16(X, get_address_ram(data)), LAMBDA temp_value :
    With(read_s16(X, REGISTER_RETURN), LAMBDA lr_value :
    With(write_s16(X, get_address_ram(data), lr_value), LAMBDA X1 :
        Ret(write_s16(X1, REGISTER_RETURN, temp_value), 2))))

xch(X, data) ==
    With(read_s16(X, get_address_ram(data)), LAMBDA mem_data :
    With(read_s16(X, REGISTER_ACCUMULATOR), LAMBDA a_reg_value :
    With(write_s16(X, get_address_ram(data), adjust_overflow(a_reg_value)), LAMBDA X1 :
        Ret(write_s16(X1, REGISTER_ACCUMULATOR, mem_data), 2))))

-----------------------------------------------------------------------------
(* The CPU: ragc-core/src/cpu.rs *)

\* execute's arms (cpu.rs 301-339); a mnemonic without an arm takes the default
ExecArm(X, inst) ==
    LET d == inst.data
        m == inst.mnem
    IN  CASE m = "AD"     -> ad(X, d)
          [] m = "ADS"    -> ads(X, d)
          [] m = "BZF"    -> bzf(X, d)
          [] m = "CA"     -> ca(X, d)
          [] m = "CS"     -> cs(X, d)
          [] m = "DCA"    -> dca(X, d)
          [] m = "DCS"    -> dcs(X, d)
          [] m = "DIM"    -> dim(X, d)
          [] m = "DV"     -> dv(X, d)
          [] m = "EXTEND" -> Ret([X EXCEPT !.c.ec_flag = TRUE, !.c.idx_val = 0], 1)
          [] m = "INCR"   -> incr(X, d)
          [] m = "INHINT" -> inhint(X, d)
          [] m = "LXCH"   -> lxch(X, d)
          [] m = "MP"     -> mp(X, d)
          [] m = "QXCH"   -> qxch(X, d)
          [] m = "RELINT" -> relint(X, d)
          [] m = "RESUME" -> resume(X, d)
          [] m = "ROR"    -> ror(X, d)
          [] m = "RAND"   -> rand(X, d)
          [] m = "READ"   -> read_instr(X, d)
          [] m = "RXOR"   -> rxor(X, d)
          [] m = "SU"     -> su(X, d)
          [] m = "TC"     -> tc(X, d)
          [] m = "TCF"    -> tcf(X, d)
          [] m = "WAND"   -> wand(X, d)
          [] m = "WOR"    -> wor(X, d)
          [] m = "WRITE"  -> write_instr(X, d)
          [] m = "XCH"    -> xch(X, d)
          [] OTHER        -> Ret([X EXCEPT !.c.ec_flag = FALSE, !.c.idx_val = 0], 0)

execute(X, inst) ==
    With(IF inst.mnem \in {"TC", "TCF"}
         THEN [X EXCEPT !.c.non_tc_count = 0, !.c.tc_count = @ + 1]
         ELSE [X EXCEPT !.c.tc_count = 0, !.c.non_tc_count = @ + 1],
         LAMBDA X0 : ExecArm(X0, inst))

update_cycles(X, cycles) == [X EXCEPT !.c.total_cycles = @ + cycles]

is_overflow(X) ==
    With(BitAnd(Rd(X, REGISTER_ACCUMULATOR), 49152),
         LAMBDA top : top # 49152 /\ top # 0)

\* interrupt_disabled without the accumulator-overflow test
interrupt_disabled_mut(X) == X.c.ec_flag \/ ~X.c.gint \/ X.c.is_irupt

\* interrupt_disabled without the test of the global enable
interrupt_disabled_gint_mut(X) == X.c.ec_flag \/ X.c.is_irupt \/ is_overflow(X)

interrupt_disabled(X) ==
    X.c.ec_flag \/ ~X.c.gint \/ X.c.is_irupt \/ is_overflow(X)

interrupt_pending(X) == X.c.rupt # 0

\* the indices `for i in 0..10` visits
RuptScan == 0..9

\* the lowest index the scan finds pending, or -1
first_pending(rupt) ==
    IF \E i \in RuptScan : BitAnd(rupt, Pow2(i)) # 0
    THEN CHOOSE i \in RuptScan :
            /\ BitAnd(rupt, Pow2(i)) # 0
            /\ \A k \in RuptScan : BitAnd(rupt, Pow2(k)) # 0 => i <= k
    ELSE -1

\* dispatch saving the program counter itself in register 0o15
dispatch_mut(X, i) ==
    With([X EXCEPT !.c.gint = FALSE], LAMBDA X0 :
    With(Wr(X0, REGISTER_COUNTER_BACKUP, Rd(X0, REGISTER_COUNTER)), LAMBDA X1 :
    With(Wr(X1, REGISTER_INSTRUCTION, calculate_instr_data(X1)), LAMBDA X2 :
    With(update_pc([X2 EXCEPT !.c.idx_val = 0], 2048 + i * 4), LAMBDA X4 :
        [X4 EXCEPT !.c.rupt = BitXor(@, Pow2(i))]))))

\* the body of the loop of handle_interrupt for the index i it dispatches
dispatch(X, i) ==
    With([X EXCEPT !.c.gint = FALSE], LAMBDA X0 :
    With(Wr(X0, REGISTER_COUNTER_BACKUP, Rd(X0, REGISTER_COUNTER) + 1), LAMBDA X1 :
    With(Wr(X1, REGISTER_INSTRUCTION, calculate_instr_data(X1)), LAMBDA X2 :
    With(update_pc([X2 EXCEPT !.c.idx_val = 0], 2048 + i * 4), LAMBDA X4 :
        [X4 EXCEPT !.c.rupt = BitXor(@, Pow2(i))]))))

handle_interrupt(X) ==
    With(first_pending(X.c.rupt), LAMBDA i : IF i = -1 THEN X ELSE dispatch(X, i))

restart(X) ==
    With([update_pc(X, 2048) EXCEPT !.c.gint = FALSE], LAMBDA X1 :
        write_io(X1, 115, BitOr(128, read_io(X1, 115))))

\* write_io(idx, 0) for each idx of a sequence, in order
RECURSIVE clear_channels(_, _)
clear_channels(X, chans) ==
    IF chans = <<>> THEN X
    ELSE clear_channels(write_io(X, Head(chans), 0), Tail(chans))

handle_goj(X) ==
    With(clear_channels(X, <<5, 6, 8, 9, 10, 11, 12, 28, 29>>), LAMBDA X9 :
    With(write_io(X9, 27, BitAnd(read_io(X9, 27), 31743)), LAMBDA X10 :
        Ret(restart([X10 EXCEPT !.c.gint = FALSE, !.c.is_irupt = FALSE,
                                !.c.tc_count = 0, !.c.non_tc_count = 0]), 2)))

NoInst == [ok |-> FALSE, pc |-> 0, data |-> 0, mnem |-> "NONE",
           extrabits |-> None, mct |-> 0]

Tag(X, kind, inst) == [X EXCEPT !.kind = kind, !.inst = inst]

\* every unprogrammed sequence at one cycle
unprog_cycles_mut(instr) == 1

\* the cycles of an unprogrammed sequence
unprog_cycles(instr) ==
    IF instr \in {"GOJ", "TCSAJ", "STORE", "FETCH", "RUPT"} THEN 2 ELSE 1

\* check_interrupts followed by the dispatch of what is pending
poll_and_dispatch(X) ==
    With([X EXCEPT !.c.rupt = BitOr(@, get_interrupt_status(X.per))], LAMBDA X2 :
        IF interrupt_pending(X2)
        THEN [handle_interrupt(X2) EXCEPT !.c.is_irupt = TRUE]
        ELSE X2)

step_unprogrammed(X) ==
    With(Head(X.c.unprog), LAMBDA instr :
    With(update_cycles([X EXCEPT !.c.unprog = Tail(@)], unprog_cycles(instr)),
         LAMBDA X1 :
        Tag(Ret(IF instr = "GOJ" THEN handle_goj(X1)
                ELSE IF ~interrupt_disabled(X1) THEN poll_and_dispatch(X1)
                ELSE X1,
                unprog_cycles(instr)),
            "unprog", NoInst)))

\* the fetched instruction i executed from the program counter addr
\* step_programmed leaving the extend flag to the instruction
run_instruction_mut(X, addr, i) ==
    IF ~i.ok THEN Panic(X)
    ELSE With([update_pc(X, BitAnd(addr + 1, 65535)) EXCEPT !.c.idx_val = 0],
              LAMBDA X1 :
         With(execute(X1, i), LAMBDA X3 : update_cycles(X3, X3.cycles)))

run_instruction(X, addr, i) ==
    IF ~i.ok THEN Panic(X)
    ELSE With([update_pc(X, BitAnd(addr + 1, 65535)) EXCEPT !.c.idx_val = 0],
              LAMBDA X1 :
         With(execute(IF X1.c.ec_flag /\ i.mnem # "INDEX"
                      THEN [X1 EXCEPT !.c.ec_flag = FALSE] ELSE X1, i),
              LAMBDA X3 : update_cycles(X3, X3.cycles)))

step_programmed(X) ==
    IF ~interrupt_disabled(X) /\ interrupt_pending(X)
    THEN Tag(Ret([handle_interrupt(X) EXCEPT !.c.is_irupt = TRUE], 0), "rupt", NoInst)
    ELSE With(BitAnd(Rd(X, REGISTER_COUNTER), 65535), LAMBDA addr :
         With(decoder(addr, calculate_instr_data(X)), LAMBDA i :
             Tag(run_instruction(X, addr, i), "exec", i)))

step(X) ==
    IF Len(X.c.unprog) > 0 THEN step_unprogrammed(X) ELSE step_programmed(X)

CpuFields ==
    [ir |-> 0, idx_val |-> 0, ec_flag |-> FALSE, gint |-> FALSE, is_irupt |-> FALSE,
     rupt |-> Pow2(8), total_cycles |-> 0, tc_count |-> 0, non_tc_count |-> 0,
     unprog |-> <<>>]

Mach(c, m, p) ==
    [c |-> c, mem |-> m, per |-> p, panic |-> FALSE, cycles |-> 0,
     kind |-> "none", inst |-> NoInst, calls |-> <<>>]

\* reset leaving the global interrupt enable as it is
reset_mut(X) == update_pc(X, 2048)

reset(X) == [update_pc(X, 2048) EXCEPT !.c.gint = FALSE]

\* Cpu::new(MemoryMap::new(image, downrupt, dsky, ..))
CpuNew == reset(Mach(CpuFields, MemoryMapNew, PeripheralsNew))

-----------------------------------------------------------------------------
(* ROM images.  A word w of rope memory is stored as the two bytes of w << 1,
   at the physical bank BANK_MAPPING selects (rom.rs 18-39) *)

Cell(w) == <<(w * 2) \div 256, (w * 2) % 256>>

\* the image with word w at offset off of the bank that bank number b selects
RomPutBank(image, b, off, w) ==
    [x \in (DOMAIN image) \cup {<<BANK_MAPPING(b), off>>} |->
        IF x = <<BANK_MAPPING(b), off>> THEN Cell(w) ELSE image[x]]

\* the image with word w at the fixed-fixed address a (2048..4095)
RomPut(image, a, w) == RomPutBank(image, Shr(a, 10), BitAnd(a, 1023), w)

RECURSIVE Load(_, _, _)
\* the words of `ws` at consecutive addresses from a
Load(image, a, ws) ==
    IF ws = <<>> THEN image
    ELSE Load(RomPut(image, a, Head(ws)), a + 1, Tail(ws))

-----------------------------------------------------------------------------
(* The DSKY link: a sender serializes channel writes, a receiver parses wire
   packets and may serialize what it parsed again *)

DskyAddrs == {0, 1, 7, 8, 28, 29, 115, 255, 256, 1024, 2047, 2048, 65535}

DskyValues == {0, 1, 63, 64, 4095, 4096, 5349, 32767, 32768, 65535}

WireBytes == {0, 32, 63, 64, 71, 128, 191, 192, 255}

CodecIdle ==
    [stage |-> "idle", addr |-> 0, val |-> 0, bytes |-> <<0, 0, 0, 0>>,
     parsed |-> None, pkt |-> PacketNew(<<0, 0, 0, 0>>), echo |-> <<0, 0, 0, 0>>]

Quiet == UNCHANGED <<cpu, mem, per, rom, build, panicked, last>>

\* the sender: generate_dsky_packet(addr, value) put on the wire
Serialize(a, v) ==
    /\ codec.stage = "idle"
    /\ codec' = [codec EXCEPT !.stage = "sent", !.addr = a, !.val = v,
                              !.bytes = generate_dsky_packet(a, v)]
    /\ Quiet

\* four arbitrary bytes arrive on the wire
Inject(b) ==
    /\ codec.stage = "idle"
    /\ codec' = [codec EXCEPT !.stage = "raw", !.bytes = b]
    /\ Quiet

\* the receiver: Packet::new on the bytes of the wire
Receive ==
    /\ codec.stage \in {"sent", "raw"}
    /\ codec' = [codec EXCEPT !.stage = IF @ = "sent" THEN "parsed" ELSE "rawparsed",
                              !.parsed = parse_dsky_packet(codec.bytes),
                              !.pkt = PacketNew(codec.bytes)]
    /\ Quiet

\* the receiver serializes the packet it built
Reserialize ==
    /\ codec.stage \in {"parsed", "rawparsed"}
    /\ codec' = [codec EXCEPT !.stage = IF @ = "parsed" THEN "echoed" ELSE "rawechoed",
                              !.echo = PacketSerialize(codec.pkt)]
    /\ Quiet

InitDsky ==
    /\ rom = EmptyArray
    /\ build = [overflow_checks |-> FALSE]
    /\ cpu = CpuNew.c
    /\ mem = CpuNew.mem
    /\ per = CpuNew.per
    /\ panicked = FALSE
    /\ last = [kind |-> "init"]
    /\ codec = CodecIdle

NextDsky ==
    \/ \E a \in DskyAddrs, v \in DskyValues : Serialize(a, v)
    \/ \E b \in WireBytes \X WireBytes \X WireBytes \X WireBytes : Inject(b)
    \/ Receive
    \/ Reserialize

SpecDsky == InitDsky /\ [][NextDsky]_vars

\* the two-bit tag of a wire byte
TagOf(byte) == byte \div 64

Framed(b) == <<TagOf(b[1]), TagOf(b[2]), TagOf(b[3]), TagOf(b[4])>> = <<0, 1, 2, 3>>

\* C8: for every channel a in [0, 2048) and value v in [0, 32768), parsing the
\* packet generated from (a, v) gives back exactly (a, v)
C8_RoundTrip ==
    (codec.stage = "parsed" /\ codec.addr < 2048 /\ codec.val < 32768)
        => codec.parsed = Some(<<codec.addr, codec.val>>)

\* C9: every four bytes that parse to (a, v) are the bytes generated from (a, v)
C9_ParseThenGenerate ==
    (codec.stage = "rawechoed" /\ codec.parsed.some) => codec.echo = codec.bytes

\* C10: parsing fails exactly when the top two bits of the four bytes are not
\* 00, 01, 10, 11 in that order; generated packets always carry these tags,
\* whatever the address and value; a packet built from rejected bytes is the
\* zero packet
C10_Framing ==
    /\ codec.stage \in {"parsed", "rawparsed"} =>
          /\ codec.parsed = None <=> ~Framed(codec.bytes)
          /\ codec.parsed = None => (codec.pkt.io_addr = 0 /\ codec.pkt.io_value = 0
                                      /\ codec.pkt.hw_packet = FALSE)
    /\ codec.stage = "sent" => Framed(codec.bytes)

C10_Witness ==
    /\ codec.stage = "rawparsed"
    /\ codec.bytes = <<32, 64, 128, 128>>
    /\ codec.parsed = None
    /\ codec.pkt.io_addr = 0

-----------------------------------------------------------------------------
(* The bank registers under writes through the memory map, and the two
   switchable windows they select *)

BankValues == {0, 255, 768, 1280, 1792, 11269, 31751, 65535}

WindowOffsets == {200}

\* at most this many writes through the erasable window in one run
MaxWindowWrites == 1

RECURSIVE BankRomFrom(_)
\* an image whose bank b holds the word 100 + b at offset 0
BankRomFrom(b) ==
    IF b = STORAGE_SEGMENTS THEN EmptyArray
    ELSE RomPutBank(BankRomFrom(b + 1), b, 0, 100 + b)

BankRom == BankRomFrom(0)

QuietMem == UNCHANGED <<cpu, per, rom, build, panicked, codec>>

\* MemoryMap::write to register 3, 4 or 6
WriteBank(reg, v) ==
    /\ mem' = MapWrite(mem, reg, v)
    /\ last' = [kind |-> "bank", reg |-> reg, val |-> v, n |-> last.n,
                eb |-> mem.regs.erasable_bank, fb |-> mem.regs.fixed_bank]
    /\ QuietMem

\* MemoryMap::write through the switchable erasable window (0o1400..0o1777)
WriteWindow(off, v) ==
    /\ last.n < MaxWindowWrites
    /\ mem' = MapWrite(mem, 768 + off, v)
    /\ last' = [kind |-> "window", off |-> off, val |-> v, n |-> last.n + 1,
                eb |-> mem.regs.erasable_bank, fb |-> mem.regs.fixed_bank]
    /\ QuietMem

\* MemoryMap::read through the switchable fixed window (0o2000..0o3777)
ReadFixed ==
    /\ UNCHANGED mem
    /\ last' = [kind |-> "fixed", out |-> MapRead(mem, rom, 1024), n |-> last.n,
                eb |-> mem.regs.erasable_bank, fb |-> mem.regs.fixed_bank]
    /\ QuietMem

InitMem ==
    /\ rom = BankRom
    /\ build = [overflow_checks |-> FALSE]
    /\ cpu = CpuNew.c
    /\ mem = CpuNew.mem
    /\ per = CpuNew.per
    /\ panicked = FALSE
    /\ last = [kind |-> "init", n |-> 0, eb |-> 0, fb |-> 0]
    /\ codec = CodecIdle

NextMem ==
    \/ \E reg \in {REGISTER_ERASABLE_BANK, REGISTER_FIXED_BANK, REGISTER_COMBINED_BANK},
          v \in BankValues : WriteBank(reg, v)
    \/ \E off \in WindowOffsets, v \in {32767} : WriteWindow(off, v)
    \/ ReadFixed

SpecMem == InitMem /\ [][NextMem]_vars

\* the pair the three bank registers read as projections of, if there is one
BankPairs ==
    LET r3 == MapRead(mem, rom, 3)
        r4 == MapRead(mem, rom, 4)
        r6 == MapRead(mem, rom, 6)
    IN  {p \in (0..7) \X (0..31) :
            r3 = p[1] * 256 /\ r4 = p[2] * 1024 /\ r6 = p[2] * 1024 + p[1]}

-----------------------------------------------------------------------------
(* The memory map under arbitrary writes: MemoryMap::write and MemoryMap::read
   (mod.rs 129-206) over registers, edit registers, timers, both erasable
   routes and fixed memory *)

\* the addresses written: Z, null, an edit register, plain erasable cells of
\* banks 0 and 1, the erasable window at offsets 0 and 100, the fixed window
\* and fixed-fixed memory
StoreAddrs == {5, 7, 17, 100, 356, 768, 868, 1124, 2048}

StoreValues == {21845, 65535}

\* the values written to the bank registers 3, 4 and 6
BankStoreValues == {0, 258, 1285, 65535}

\* at most this many MemoryMap::write calls in one run
MaxMapWrites == 2

\* BankRom with two cells given as raw bytes: parity bit and top bit set
MapRom ==
    [x \in (DOMAIN BankRom) \cup {<<0, 7>>, <<1, 5>>, <<31, 100>>} |->
        IF x = <<0, 7>> THEN <<255, 255>>
        ELSE IF x = <<1, 5>> THEN <<128, 3>>
        ELSE IF x = <<31, 100>> THEN <<1, 1>>
        ELSE BankRom[x]]

\* the last value written to register 5 after a write of v to a
LastZ(a, v) == IF a = REGISTER_COUNTER THEN v ELSE last.z

\* MemoryMap::write(a, v)
MapStore(a, v) ==
    /\ last.n < MaxMapWrites
    /\ mem' = MapWrite(mem, a, v)
    /\ last' = [kind |-> "store", addr |-> a, val |-> v, out |-> 0,
                n |-> last.n + 1, z |-> LastZ(a, v), pre |-> mem]
    /\ QuietMem

\* MemoryMap::read(a)
MapLoad(a) ==
    /\ UNCHANGED mem
    /\ last' = [kind |-> "load", addr |-> a, val |-> 0, out |-> MapRead(mem, rom, a),
                n |-> last.n, z |-> last.z, pre |-> mem]
    /\ QuietMem

\* ReadOnlyMemory::read(bank, off) on its own
RomProbe(bank, off) ==
    /\ UNCHANGED mem
    /\ last' = [kind |-> "probe", addr |-> bank, val |-> off,
                out |-> RomRead(rom, bank, off),
                n |-> last.n, z |-> last.z, pre |-> mem]
    /\ QuietMem

\* the addresses a run reads
LoadAddrs == {100, 868, 1024, 1124, 2055, 3077}

ProbeBanks == {0, 1, 3, 4, 35, 36, 40}

ProbeOffsets == {0, 5, 1023, 1024}

InitMap ==
    /\ rom = MapRom
    /\ build = [overflow_checks |-> FALSE]
    /\ cpu = CpuNew.c
    /\ mem = CpuNew.mem
    /\ per = CpuNew.per
    /\ panicked = FALSE
    /\ last = [kind |-> "init", addr |-> 0, val |-> 0, out |-> 0, n |-> 0,
               z |-> 2048, pre |-> CpuNew.mem]
    /\ codec = CodecIdle

NextMap ==
    \/ \E a \in StoreAddrs, v \in StoreValues : MapStore(a, v)
    \/ \E a \in {REGISTER_ERASABLE_BANK, REGISTER_FIXED_BANK, REGISTER_COMBINED_BANK},
          v \in BankStoreValues : MapStore(a, v)
    \/ \E a \in LoadAddrs : MapLoad(a)
    \/ \E b \in ProbeBanks, off \in ProbeOffsets : RomProbe(b, off)

SpecMap == InitMap /\ [][NextMap]_vars

\* the fixed-memory addresses the properties read
FixedProbes == {1024, 1029, 1031, 1124, 2047, 2048, 2055, 3072, 3077, 4095}

\* the physical bank of a logical bank, as the text gives it
PhysicalBank(L) == IF L \in 0..3 THEN (L + 2) % 4 ELSE L

\* the two bytes the image holds at a cell, high byte first, shifted right by
\* one bit and masked to 15 bits
StoredWord(P, off) ==
    LET c == IF <<P, off>> \in DOMAIN rom THEN rom[<<P, off>>] ELSE <<0, 0>>
    IN  ((c[1] * 256 + c[2]) \div 2) % 32768

\* the logical bank of a fixed address under the current register 4
LogicalBank(a) ==
    IF a \div 1024 = 1 THEN MapRead(mem, rom, REGISTER_FIXED_BANK) \div 1024
    ELSE a \div 1024

\* C11: a read of a in 0x400..0xFFF returns the ROM word (big-endian, shifted
\* right one bit, masked to 15 bits) at offset a & 0x3FF of physical bank P(L),
\* L the fixed-bank register when a>>10 = 1 and a>>10 otherwise, P mapping
\* 0,1,2,3 to 2,3,0,1 and the identity on 4..35; a bank of 36 or more reads 0
C11_FixedRead ==
    /\ \A a \in FixedProbes :
          MapRead(mem, rom, a) = StoredWord(PhysicalBank(LogicalBank(a)), a % 1024)
    /\ (last.kind = "load" /\ last.addr >= 1024) =>
          last.out = StoredWord(PhysicalBank(LogicalBank(last.addr)), last.addr % 1024)
    /\ (last.kind = "probe" /\ last.val < 1024) =>
          last.out = IF last.addr >= 36 THEN 0
                     ELSE StoredWord(PhysicalBank(last.addr), last.val)

\* a read through the fixed window with bank 31 selected
C11_Witness ==
    /\ last.kind = "load"
    /\ last.addr = 1124
    /\ MapRead(mem, rom, REGISTER_FIXED_BANK) = 31744
    /\ last.out = 128
    /\ MapRead(mem, rom, 2055) = 32767
    /\ MapRead(mem, rom, 3077) = 16385

\* the erasable bank register 3 selects
ErasableBank(m) == MapRead(m, rom, REGISTER_ERASABLE_BANK) \div 256

\* the RAM cell an erasable address goes to under the memory m
ErasableCell(m, a) ==
    <<IF a \div 256 = 3 THEN ErasableBank(m) ELSE a \div 256, a % 256>>

\* the offsets at which the window and the plain addresses are compared
AliasOffsets == {0, 2, 48, 49, 100, 255}

\* every RAM cell other than those of the set keeps its word across the step
RamSameExcept(cells) ==
    \A c \in ((DOMAIN mem.ram) \cup (DOMAIN last.pre.ram)) \ cells :
        Get(mem.ram, c) = Get(last.pre.ram, c)

\* C12: an erasable address a in 0o61..0o1777 goes to RAM bank a>>8, offset
\* a & 0xFF, but to the bank of the erasable-bank register when a>>8 = 3; so
\* with that register holding b in 0..2 a word written at 0x300+k is read at
\* (b<<8)+k and the other way round (k >= 0o61 when b = 0), and banks 4..7 are
\* written only through the 0x300 window
C12_ErasableDispatch ==
    /\ (last.kind = "store" /\ last.addr \in 49..1023) =>
          /\ Get(mem.ram, ErasableCell(last.pre, last.addr)) % 32768 = last.val % 32768
          /\ MapRead(mem, rom, last.addr) = Get(mem.ram, ErasableCell(mem, last.addr))
          /\ RamSameExcept({ErasableCell(last.pre, last.addr)})
    /\ (last.kind = "load" /\ last.addr \in 49..1023) =>
          last.out = Get(mem.ram, ErasableCell(mem, last.addr))
    /\ \A k \in AliasOffsets :
          (ErasableBank(mem) \in 0..2 /\ (ErasableBank(mem) = 0 => k >= 49)) =>
              /\ MapRead(mem, rom, 768 + k) = MapRead(mem, rom, ErasableBank(mem) * 256 + k)
              /\ \A a \in {768 + k, ErasableBank(mem) * 256 + k} :
                    (last.kind = "store" /\ last.addr = a) =>
                        /\ MapRead(mem, rom, 768 + k) = last.val % 32768
                        /\ MapRead(mem, rom, ErasableBank(mem) * 256 + k)
                              = last.val % 32768
    /\ (last.kind = "store" /\ last.addr \notin 768..1023) =>
          \A c \in (4..7) \X (0..255) : Get(mem.ram, c) = Get(last.pre.ram, c)

\* a word written through the window with bank 1 selected, read at 0x100 + k
C12_Witness ==
    /\ last.kind = "store"
    /\ last.addr = 868
    /\ last.val = 21845
    /\ ErasableBank(last.pre) = 1
    /\ MapRead(mem, rom, 356) = 21845
    /\ Get(mem.ram, <<1, 100>>) = 21845

\* the addresses compared before and after a write: every register, edit
\* register, timer and special address, both erasable routes and fixed memory
ReadProbes ==
    (0..48) \cup {49, 100, 255, 256, 356, 612, 768, 770, 817, 868, 1023} \cup FixedProbes

\* C13: a write to a fixed-memory address 0x400..0xFFF changes no state: the
\* memory map and the ROM are as before, so under every bank setting a later
\* read of any address returns what it returned before the write
C13_FixedWriteNoOp ==
    [][(last'.kind = "store" /\ last'.addr \in 1024..4095) =>
          /\ mem' = mem
          /\ rom' = rom
          /\ \A a \in ReadProbes : MapRead(mem', rom', a) = MapRead(mem, rom, a)]_vars

\* a write into the fixed window with bank 31 selected and RAM not empty
C13_Witness ==
    /\ last.kind = "store"
    /\ last.addr = 1124
    /\ last.val = 65535
    /\ MapRead(mem, rom, REGISTER_FIXED_BANK) = 31744
    /\ MapRead(mem, rom, 1124) = 128

\* C14: after any sequence of memory-map writes register 7 reads 0 and a
\* write to it changes nothing, and register 5 reads the low 12 bits of the
\* last value written to it
C14_NullAndZero ==
    /\ MapRead(mem, rom, REGISTER_NULL) = 0
    /\ (last.kind = "store" /\ last.addr = REGISTER_NULL) => mem = last.pre
    /\ MapRead(mem, rom, REGISTER_COUNTER) = last.z % 4096

\* 0xFFFF written to register 5 and then to register 7
C14_Witness ==
    /\ last.kind = "store"
    /\ last.addr = REGISTER_NULL
    /\ last.val = 65535
    /\ last.z = 65535
    /\ last.n = 2
    /\ MapRead(mem, rom, REGISTER_COUNTER) = 4095

\* C15: only the accumulator (address 0) and the multiplier (address 2) carry
\* 16 bits: after any memory-map writes of 16-bit values under any bank setting
\* read(a) is below 2^15 for every address a of 0..0xFFF other than 0 and 2
C15_FifteenBitSlots ==
    \A a \in ReadProbes \ {REGISTER_ACCUMULATOR, REGISTER_MULTIPLIER} :
        MapRead(mem, rom, a) < 32768

-----------------------------------------------------------------------------
(* Programs: instruction words as the decoder reads them (decoder.rs) *)

TC(a)    == a
TCF(a)   == 4096 + a
INCR(k)  == 8192 + 2048 + k
CA(a)    == 12288 + a
CS(a)    == 16384 + a
INDEX(k) == 20480 + k
XCH(k)   == 20480 + 3072 + k
AD(a)    == 24576 + a
MASK(a)  == 28672 + a
RELINT   == TC(3)
INHINT   == TC(4)
EXTEND   == TC(6)
RESUME   == INDEX(15)
\* after EXTEND
READ(ch)  == ch
WRITE(ch) == 512 + ch
WOR(ch)   == 2560 + ch
MP(a)     == MASK(a)

\* the first word of the program proper, and of its constants
MainAt == 2048 + 64
DataAt == 2048 + 128

RECURSIVE VectorsFrom(_, _)
\* RESUME at the vectors 0x800 + 4i of the interrupts i..10
VectorsFrom(image, i) ==
    IF i > 10 THEN image
    ELSE VectorsFrom(RomPut(image, 2048 + 4 * i, RESUME), i + 1)

\* jump to the program at the entry point, a bare RESUME at each vector, and
\* the constants 0o37777, 1, 5, 0o77776
Skeleton ==
    Load(VectorsFrom(RomPut(EmptyArray, 2048, TCF(MainAt)), 1),
         DataAt, <<16383, 1, 5, 32766>>)

Program(ws) == Load(Skeleton, MainAt, ws)

ProgOverflow ==
    Program(<<RELINT, CA(DataAt), AD(DataAt + 1), INHINT, RELINT, XCH(64),
              TCF(MainAt + 6)>>)

ProgExtend ==
    Program(<<CA(DataAt + 2), RELINT, EXTEND, INDEX(0), MP(DataAt + 1),
              INDEX(0), AD(DataAt + 1), EXTEND, MP(DataAt + 3), TCF(MainAt + 9)>>)

ProgResume == Program(<<RESUME, RELINT, TCF(MainAt + 2)>>)

ProgIo ==
    Program(<<CA(DataAt + 2), RELINT, EXTEND, WRITE(28), EXTEND, READ(13),
              EXTEND, WOR(9), EXTEND, READ(256), TCF(MainAt + 10)>>)

ProgErr == Program(<<RELINT, INCR(64), EXTEND, 8192, TCF(MainAt + 4)>>)

\* a call, the routine, and the return through TC 2
ProgCall ==
    Program(<<RELINT, TC(MainAt + 3), TCF(MainAt + 1), CA(DataAt + 2),
              TC(REGISTER_RETURN)>>)

Programs ==
    {EmptyArray, ProgOverflow, ProgExtend, ProgResume, ProgIo, ProgErr, ProgCall}

-----------------------------------------------------------------------------
(* The running computer: the driver calls step() (ragc/src/main.rs 108-118);
   between steps the host may set bits of the public pending word (cpu.rs 55)
   and the display may raise its interrupt mask *)

\* the interrupts the host raises: T4 and manual
HostRupts == {4, 10}

\* executed cycles after which the run is cut off
MaxCycles == 16

Machine == Mach(cpu, mem, per)

Snapshot == [c |-> cpu, mem |-> mem, per |-> per]

Step ==
    /\ ~panicked
    /\ cpu.total_cycles < MaxCycles
    /\ \E X \in {step(Machine)} :
           IF X.panic
           THEN /\ panicked' = TRUE
                /\ last' = [kind |-> "panic", inst |-> X.inst, cycles |-> 0,
                            pre |-> Snapshot]
                /\ UNCHANGED <<cpu, mem, per>>
           ELSE /\ cpu' = X.c
                /\ mem' = X.mem
                /\ per' = X.per
                /\ last' = [kind |-> X.kind, inst |-> X.inst, cycles |-> X.cycles,
                            pre |-> Snapshot]
                /\ UNCHANGED panicked
    /\ UNCHANGED <<rom, build, codec>>

RaiseInterrupt(i) ==
    /\ ~panicked
    /\ cpu.total_cycles < MaxCycles
    /\ BitAnd(cpu.rupt, Pow2(i)) = 0
    /\ cpu' = [cpu EXCEPT !.rupt = BitOr(@, Pow2(i))]
    /\ last' = [kind |-> "host", inst |-> NoInst, cycles |-> 0, pre |-> Snapshot]
    /\ UNCHANGED <<mem, per, rom, build, panicked, codec>>

\* a key is pressed: the display holds the key code and asks for KEYRUPT1
KeyPress ==
    /\ ~panicked
    /\ cpu.total_cycles < MaxCycles
    /\ per.display.irq = 0
    /\ per' = [per EXCEPT !.display = [word |-> 17, irq |-> Pow2(5)]]
    /\ last' = [kind |-> "key", inst |-> NoInst, cycles |-> 0, pre |-> Snapshot]
    /\ UNCHANGED <<cpu, mem, rom, build, panicked, codec>>

Init ==
    /\ rom \in Programs
    /\ build \in [overflow_checks : BOOLEAN]
    /\ cpu = CpuNew.c
    /\ mem = CpuNew.mem
    /\ per = CpuNew.per
    /\ panicked = FALSE
    /\ last = [kind |-> "init", inst |-> NoInst, cycles |-> 0,
               pre |-> [c |-> CpuNew.c, mem |-> CpuNew.mem, per |-> CpuNew.per]]
    /\ codec = CodecIdle

Next ==
    \/ Step
    \/ \E i \in HostRupts : RaiseInterrupt(i)
    \/ KeyPress

Spec == Init /\ [][Next]_vars

TypeOK ==
    /\ cpu.rupt \in 0..65535
    /\ cpu.ir \in 0..65535
    /\ cpu.idx_val \in 0..65535
    /\ \A i \in 0..31 : mem.regs.registers[i] \in 0..65535

-----------------------------------------------------------------------------
(* Properties of step().  `last` holds the branch step() took, the decoded
   instruction, the cycles returned and the state the step started from. *)

Stepped == last.kind \in {"exec", "rupt", "unprog"}

PreRead(idx) == MapRead(last.pre.mem, rom, idx)

NowRead(idx) == MapRead(mem, rom, idx)

\* the four conditions on the state a step starts from
PreDeliverable ==
    /\ ~last.pre.c.ec_flag
    /\ last.pre.c.gint
    /\ ~last.pre.c.is_irupt
    /\ (last.pre.mem.regs.registers[0] \div 16384) \in {0, 3}

\* the indices of the bits set in a pending word
Bits(w) == {i \in 0..15 : (w \div Pow2(i)) % 2 = 1}

\* the step did something of a dispatch: took the interrupt branch, raised
\* the in-interrupt flag or cleared a pending bit
Dispatched ==
    \/ last.kind = "rupt"
    \/ cpu.is_irupt /\ ~last.pre.c.is_irupt
    \/ Bits(last.pre.c.rupt) \ Bits(cpu.rupt) # {}

\* the word the decoder is given at the start of the step
PreComposite ==
    add_s15(last.pre.c.ir, last.pre.c.idx_val)
        + (IF last.pre.c.ec_flag THEN 32768 ELSE 0)

\* C1: a step dispatches an interrupt only if, when it starts, the extend flag
\* is clear, the global enable is set, the in-interrupt flag is clear and the
\* top two bits of A are equal; if one of the four fails the step executes the
\* fetched instruction and leaves the pending word unchanged
C1_DispatchOnlyWhenDeliverable ==
    /\ (Stepped /\ Dispatched) => PreDeliverable
    /\ (last.kind \in {"exec", "rupt", "unprog", "panic"} /\ ~PreDeliverable) =>
          /\ last.kind \in {"exec", "panic"}
          /\ last.inst.pc = PreRead(REGISTER_COUNTER)
          /\ last.inst.data = PreComposite
          /\ cpu.rupt = last.pre.c.rupt

\* a step that starts with A in overflow, interrupts otherwise enabled and an
\* interrupt pending
C1_Witness ==
    /\ last.kind = "exec"
    /\ last.pre.c.gint /\ ~last.pre.c.is_irupt /\ ~last.pre.c.ec_flag
    /\ last.pre.mem.regs.registers[0] = 16384
    /\ last.pre.c.rupt = 16
    /\ last.inst.mnem = "INHINT"
    /\ cpu.rupt = 16

\* C2: a step that starts deliverable with a non-zero pending word takes the
\* lowest set index i of 0..10: global enable cleared, PC+1 in register 0o15,
\* the IR-plus-index composite in register 0o17, index cleared, PC = 0x800+4i,
\* exactly bit i of the pending word cleared, in-interrupt flag set
C2_DispatchLowestIndex ==
    (Stepped /\ PreDeliverable /\ Bits(last.pre.c.rupt) \cap (0..10) # {}) =>
        LET set == Bits(last.pre.c.rupt) \cap (0..10)
            i   == CHOOSE j \in set : \A k \in set : j <= k
        IN  /\ ~cpu.gint
            /\ NowRead(REGISTER_COUNTER_BACKUP) = PreRead(REGISTER_COUNTER) + 1
            /\ NowRead(REGISTER_INSTRUCTION) = PreComposite
            /\ cpu.idx_val = 0
            /\ NowRead(REGISTER_COUNTER) = 2048 + 4 * i
            /\ Bits(cpu.rupt) = Bits(last.pre.c.rupt) \ {i}
            /\ cpu.is_irupt

\* C3: each step polls the peripherals first and merges their interrupt masks
\* into the pending word: after a step every bit a peripheral was raising when
\* the step began is pending, or is the interrupt the step dispatched
C3_StepPollsPeripherals ==
    Stepped =>
        \A b \in Bits(get_interrupt_status(last.pre.per)) :
            \/ b \in Bits(cpu.rupt)
            \/ last.kind = "rupt" /\ NowRead(REGISTER_COUNTER) = 2048 + 4 * b

C5_ExtendSurvivesIndex ==
    (last.kind = "exec" /\ last.inst.mnem = "INDEX" /\ last.pre.c.ec_flag)
        => cpu.ec_flag

\* C6: INDEX k sets the index value to M[k]; every instruction is decoded from
\* add_s15(IR, index) with bit 15 from the extend flag; after the instruction
\* that follows, the index is 0 again
C6_IndexSetsIndex ==
    last.kind = "exec" =>
        /\ last.inst.data = PreComposite
        /\ last.inst.mnem = "INDEX" =>
              cpu.idx_val = BitAnd(PreRead(get_address(last.inst.data)), 32767)
        /\ last.inst.mnem # "INDEX" => cpu.idx_val = 0

-----------------------------------------------------------------------------
(* Construction, reset and GOJ.  The host drives the Cpu through its public
   functions: write_io (cpu.rs 250), execute (cpu.rs 289), step and reset.
   No code queues an unprogrammed sequence, so GOJ is run by handing step()
   a queue that holds it. *)

\* the channels the host writes, and what it writes
CtlChannels == {5, 9, 27, 28, 115}

CtlValues == {32767}

\* at most this many host calls in one run
MaxCtlOps == 4

\* the outcome X of a call becomes the state; a panic ends the run
Apply(X, kind, inst) ==
    /\ IF X.panic
       THEN /\ panicked' = TRUE
            /\ UNCHANGED <<cpu, mem, per>>
       ELSE /\ cpu' = X.c
            /\ mem' = X.mem
            /\ per' = X.per
            /\ UNCHANGED panicked
    /\ last' = [kind |-> IF X.panic THEN "panic" ELSE kind, inst |-> inst,
                cycles |-> X.cycles, pre |-> Snapshot, n |-> last.n + 1]
    /\ UNCHANGED <<rom, build, codec>>

CtlReady == ~panicked /\ last.n < MaxCtlOps

\* Cpu::write_io(ch, v)
PokeIo(ch, v) ==
    /\ CtlReady
    /\ \E X \in {write_io(Machine, ch, v)} : Apply(X, "io", NoInst)

\* the decoded RELINT
RelintInst == Instr(0, RELINT, "RELINT", None, 1)

\* Cpu::execute(&inst) with RELINT
ExecRelint ==
    /\ CtlReady
    /\ \E X \in {execute(Machine, RelintInst)} : Apply(X, "execute", RelintInst)

\* Cpu::step()
CtlStep ==
    /\ CtlReady
    /\ \E X \in {step(Machine)} : Apply(X, X.kind, X.inst)

\* Cpu::reset()
Reset ==
    /\ CtlReady
    /\ \E X \in {reset(Machine)} : Apply(X, "reset", NoInst)

\* step() with GOJ at the head of the queue
Goj ==
    /\ CtlReady
    /\ \E X \in {step([Machine EXCEPT !.c.unprog = <<"GOJ">>])} :
          Apply(X, "goj", NoInst)

InitCtl ==
    /\ rom \in {ProgResume, ProgIo}
    /\ build \in [overflow_checks : BOOLEAN]
    /\ cpu = CpuNew.c
    /\ mem = CpuNew.mem
    /\ per = CpuNew.per
    /\ panicked = FALSE
    /\ last = [kind |-> "init", inst |-> NoInst, cycles |-> 0,
               pre |-> [c |-> CpuNew.c, mem |-> CpuNew.mem, per |-> CpuNew.per],
               n |-> 0]
    /\ codec = CodecIdle

NextCtl ==
    \/ \E ch \in CtlChannels, v \in CtlValues : PokeIo(ch, v)
    \/ ExecRelint
    \/ CtlStep
    \/ Reset
    \/ Goj

SpecCtl == InitCtl /\ [][NextCtl]_vars

\* C16: after Cpu::new the PC register reads 0x800, IR is the word at 0x800,
\* the global enable, in-interrupt flag, extend flag and index are clear, the
\* pending word is exactly bit 8, ports 0o30..0o33 hold 0o37777, 0o77777,
\* 0o77777, 0o77777 and all RAM, every other register and every other port
\* is zero; reset() at any later time sets PC to 0x800, prefetches IR from
\* 0x800 and clears the global enable
C16_ConstructionAndReset ==
    /\ last.kind = "init" =>
          /\ NowRead(REGISTER_COUNTER) = 2048
          /\ cpu.ir = NowRead(2048)
          /\ ~cpu.gint /\ ~cpu.is_irupt /\ ~cpu.ec_flag
          /\ cpu.idx_val = 0
          /\ Bits(cpu.rupt) = {8}
          /\ <<Get(mem.port_map, 24), Get(mem.port_map, 25),
               Get(mem.port_map, 26), Get(mem.port_map, 27)>>
                = <<16383, 32767, 32767, 32767>>
          /\ \A ch \in (0..255) \ (24..27) : Get(mem.port_map, ch) = 0
          /\ \A c \in (0..7) \X (0..255) : Get(mem.ram, c) = 0
          /\ \A r \in (0..31) \ {REGISTER_COUNTER} : mem.regs.registers[r] = 0
          /\ \A a \in (0..48) \ {REGISTER_COUNTER} : NowRead(a) = 0
    /\ last.kind = "reset" =>
          /\ NowRead(REGISTER_COUNTER) = 2048
          /\ cpu.ir = NowRead(2048)
          /\ ~cpu.gint

\* a reset() while interrupts are enabled and the program is in an interrupt
\* routine
C16_Witness ==
    /\ last.kind = "reset"
    /\ last.pre.c.gint
    /\ PreRead(REGISTER_COUNTER) # 2048
    /\ cpu.ir = 6208
    /\ ~cpu.gint

\* the channels GOJ is said to leave at zero
GojZeroChannels == {5, 6, 8, 9, 10, 11, 12, 28, 29}

\* what GOJ leaves in the CPU proper: flags, counters, PC, IR and the cost
GojCpuState ==
    /\ ~cpu.gint /\ ~cpu.is_irupt
    /\ cpu.tc_count = 0 /\ cpu.non_tc_count = 0
    /\ NowRead(REGISTER_COUNTER) = 2048
    /\ cpu.ir = NowRead(2048)
    /\ last.cycles = 2

C17_GojStored ==
    last.kind = "goj" =>
        /\ \A ch \in GojZeroChannels : Get(mem.port_map, ch) = 0
        /\ BitAnd(Get(mem.port_map, 27), 1024) = 0
        /\ BitAnd(Get(mem.port_map, 115), 128) # 0
        /\ GojCpuState

\* channels 0o33, 0o34 and 0o35 aside, the cleared channels read back the
\* stored zero
C17_GojReadsStored ==
    last.kind = "goj" =>
        \A ch \in GojZeroChannels \ {28, 29} :
            read_io(Machine, ch) = Get(mem.port_map, ch)

\* channels 0o33, 0o34 and 0o35 read all ones whatever GOJ stored
C17_GojStatusReads ==
    last.kind = "goj" =>
        \A ch \in {27, 28, 29} : read_io(Machine, ch) = 32767

-----------------------------------------------------------------------------
(* Single instructions.  The host loads the accumulator and erasable words
   with Cpu::write (cpu.rs 202-207) and runs one decoded instruction at a
   time with Cpu::execute (cpu.rs 289); last keeps the two most recent
   calls. *)

\* at most this many host calls in one run
MaxOps == 4

\* the accumulator values and the values of the word at 0o100 the host loads
AccValues == {1, 5, 32767, 65535}

OperandAt == 64

ScratchAt == 65

OperandValues == {3, 32762}

\* the target of the branch, in fixed memory
BranchTarget == MainAt + 1

\* BZF as the extended opcode 1 with its 12-bit target; decoder_extended
\* yields BZMF for every word, so the instruction is built by the caller
BzfInst == Instr(0, 32768 + 4096 + BranchTarget, "BZF", None, 1)

UnitInsts ==
    {decoder(0, AD(OperandAt)), decoder(0, XCH(ScratchAt)),
     decoder(0, EXTEND), BzfInst}

UnitReady == ~panicked /\ last.n < MaxOps

ApplyUnit(X, kind, inst) ==
    /\ IF X.panic
       THEN /\ panicked' = TRUE
            /\ UNCHANGED <<cpu, mem, per>>
       ELSE /\ cpu' = X.c
            /\ mem' = X.mem
            /\ per' = X.per
            /\ UNCHANGED panicked
    /\ last' = [kind |-> IF X.panic THEN "panic" ELSE kind, inst |-> inst,
                cycles |-> X.cycles, pre |-> Snapshot, n |-> last.n + 1,
                prev |-> [kind |-> last.kind, inst |-> last.inst,
                          pre |-> last.pre],
                calls |-> X.calls]
    /\ UNCHANGED <<rom, build, codec>>

\* Cpu::write(idx, val)
HostWrite(idx, val) ==
    /\ UnitReady
    /\ \E X \in {Wr(Machine, idx, val)} : ApplyUnit(X, "load", NoInst)

\* Cpu::execute(&inst)
Exec(inst) ==
    /\ UnitReady
    /\ \E X \in {execute(Machine, inst)} : ApplyUnit(X, "execute", inst)

InitUnit ==
    /\ rom = ProgOverflow
    /\ build \in [overflow_checks : BOOLEAN]
    /\ cpu = CpuNew.c
    /\ mem = CpuNew.mem
    /\ per = CpuNew.per
    /\ panicked = FALSE
    /\ last = [kind |-> "init", inst |-> NoInst, cycles |-> 0,
               pre |-> [c |-> CpuNew.c, mem |-> CpuNew.mem, per |-> CpuNew.per],
               n |-> 0,
               prev |-> [kind |-> "init", inst |-> NoInst,
                         pre |-> [c |-> CpuNew.c, mem |-> CpuNew.mem,
                                  per |-> CpuNew.per]],
               calls |-> <<>>]
    /\ codec = CodecIdle

NextUnit ==
    \/ \E v \in AccValues : HostWrite(REGISTER_ACCUMULATOR, v)
    \/ \E v \in OperandValues : HostWrite(OperandAt, v)
    \/ \E inst \in UnitInsts : Exec(inst)

SpecUnit == InitUnit /\ [][NextUnit]_vars

\* a 15-bit word as the 16-bit word with bit 14 copied into bit 15
SignExtended(w) == IF (w \div 16384) % 2 = 1 THEN (w % 32768) + 32768 ELSE w % 32768

\* the 16-bit sum with the carry out of bit 15 added back into bit 0
EndAroundSum(a, b) == IF a + b > 65535 THEN a + b - 65535 ELSE a + b

Ran(m) == last.kind = "execute" /\ last.inst.mnem = m

\* the address field of the instruction just run
LastK == last.inst.data % 4096

Prev2Read(idx) == MapRead(last.prev.pre.mem, rom, idx)

\* C18: AD k leaves in A the 16-bit end-around-carry sum of A and the
\* sign-extended M[k] and costs 2; AD k then XCH j from non-negative A = a,
\* M[k] = b, a + b <= 0o37777, M[j] = 0 leaves A = 0 and M[j] = a + b; adding
\* a word to its own ones' complement leaves 0xFFFF in A
C18_AdEndAroundCarry ==
    /\ Ran("AD") =>
          /\ NowRead(REGISTER_ACCUMULATOR)
                = EndAroundSum(PreRead(REGISTER_ACCUMULATOR),
                               SignExtended(PreRead(LastK)))
          /\ last.cycles = 2
          /\ PreRead(REGISTER_ACCUMULATOR) = 65535 - SignExtended(PreRead(LastK))
                => NowRead(REGISTER_ACCUMULATOR) = 65535
    /\ ( /\ Ran("XCH")
         /\ last.prev.kind = "execute" /\ last.prev.inst.mnem = "AD"
         /\ Prev2Read(REGISTER_ACCUMULATOR) + Prev2Read(OperandAt) <= 16383
         /\ Prev2Read(ScratchAt) = 0 )
       => /\ NowRead(REGISTER_ACCUMULATOR) = 0
          /\ NowRead(ScratchAt)
                = Prev2Read(REGISTER_ACCUMULATOR) + Prev2Read(OperandAt)

\* AD 0o100 then XCH 0o101 from A = 5, M[0o100] = 3: A = 0 and M[0o101] = 8
C18_Witness ==
    /\ Ran("XCH")
    /\ last.prev.kind = "execute" /\ last.prev.inst.mnem = "AD"
    /\ Prev2Read(REGISTER_ACCUMULATOR) = 5
    /\ Prev2Read(OperandAt) = 3
    /\ NowRead(REGISTER_ACCUMULATOR) = 0
    /\ NowRead(ScratchAt) = 8

\* AD with a carry out of bit 15: -0 + 3 = 3
C18_WitnessCarry ==
    /\ Ran("AD")
    /\ PreRead(REGISTER_ACCUMULATOR) = 65535
    /\ PreRead(OperandAt) = 3
    /\ NowRead(REGISTER_ACCUMULATOR) = 3

\* AD of a word to its complement: 5 + (-5) = -0
C18_WitnessComplement ==
    /\ Ran("AD")
    /\ PreRead(REGISTER_ACCUMULATOR) = 5
    /\ PreRead(OperandAt) = 32762
    /\ NowRead(REGISTER_ACCUMULATOR) = 65535

\* what a taken branch to BranchTarget leaves: PC, the prefetched IR, the cost
BranchTaken ==
    /\ NowRead(REGISTER_COUNTER) = LastK
    /\ cpu.ir = NowRead(LastK)
    /\ last.cycles = 1

\* what a branch not taken leaves
FellThrough ==
    /\ NowRead(REGISTER_COUNTER) = PreRead(REGISTER_COUNTER)
    /\ cpu.ir = last.pre.c.ir
    /\ last.cycles = 2

\* C19: BZF branches exactly when the 16-bit accumulator is 0x0000 or 0xFFFF:
\* PC becomes the 12-bit target, IR is prefetched from it and the cost is 1;
\* for every other accumulator value PC and IR are unchanged and the cost is
\* 2; either way the extend flag is clear afterwards
C19_BzfBranch ==
    Ran("BZF") =>
        /\ IF PreRead(REGISTER_ACCUMULATOR) \in {0, 65535}
           THEN BranchTaken
           ELSE FellThrough
        /\ ~cpu.ec_flag

\* BZF taken on -0 right after EXTEND: the flag was set and is now clear
C19_Witness ==
    /\ Ran("BZF")
    /\ last.pre.c.ec_flag
    /\ PreRead(REGISTER_ACCUMULATOR) = 65535
    /\ NowRead(REGISTER_COUNTER) = BranchTarget
    /\ cpu.ir = CA(DataAt)
    /\ cpu.ir # last.pre.c.ir
    /\ last.cycles = 1

\* BZF not taken with A = 1
C19_WitnessFallThrough ==
    /\ Ran("BZF")
    /\ last.pre.c.ec_flag
    /\ PreRead(REGISTER_ACCUMULATOR) = 1
    /\ NowRead(REGISTER_COUNTER) = 2048
    /\ last.cycles = 2
    /\ ~cpu.ec_flag

\* C20 as stated: with A = 0x7FFF, BZF takes the branch to its target
C20_BranchOn7FFF ==
    (Ran("BZF") /\ PreRead(REGISTER_ACCUMULATOR) = 32767) => BranchTaken

\* C20: with A = 0x7FFF, BZF does not take the branch: PC and IR are
\* unchanged, the accumulator still holds 0x7FFF and the cost is 2
C20_FallThroughOn7FFF ==
    (Ran("BZF") /\ PreRead(REGISTER_ACCUMULATOR) = 32767) =>
        /\ FellThrough
        /\ NowRead(REGISTER_ACCUMULATOR) = 32767

\* BZF run with A = 0x7FFF
C20_Witness ==
    /\ Ran("BZF")
    /\ PreRead(REGISTER_ACCUMULATOR) = 32767
    /\ LastK = BranchTarget
    /\ NowRead(REGISTER_COUNTER) = 2048
    /\ last.cycles = 2

-----------------------------------------------------------------------------
(* The edit registers through the memory map: MemoryMap::write and read of
   0o20..0o23 (mod.rs 135-138, 178) reach EditRegisters (edit_registers.rs
   33-77). *)

EditAddrs == 16..19

\* 0x4001, single bits, all ones, and words with bit 15 set
EditValues == {1, 128, 16384, 16385, 21845, 32767, 49153, 65535}

NextEdit ==
    \/ \E a \in EditAddrs, v \in EditValues : MapStore(a, v)
    \/ \E a \in EditAddrs : MapLoad(a)

SpecEdit == InitMap /\ [][NextEdit]_vars

\* what an edit address holds after v is written to it, by arithmetic on the
\* 15-bit word
Edited(a, v) ==
    LET w == v % 32768
    IN  CASE a = 18 -> ((w * 2) % 32768) + (w \div 16384)
          [] a = 16 -> (w \div 2) + (w % 2) * 16384
          [] a = 17 -> (w \div 2) + (IF w >= 16384 THEN 16384 ELSE 0)
          [] a = 19 -> (w \div 128) % 128

\* C21: a value written to an edit address (masked to 15 bits) reads back
\* cycled left at 0o22, cycled right at 0o20, shifted right with the sign kept
\* at 0o21 and as bits 7..13 at 0o23, and the write leaves the other three edit
\* registers as they were
C21_EditRegisters ==
    (last.kind = "store" /\ last.addr \in EditAddrs) =>
        /\ MapRead(mem, rom, last.addr) = Edited(last.addr, last.val)
        /\ \A b \in EditAddrs \ {last.addr} :
              MapRead(mem, rom, b) = MapRead(last.pre, rom, b)

\* 0x4001 written to 0o22 reads 0x0003 while 0o20 still holds an earlier word
C21_Witness ==
    /\ last.kind = "store"
    /\ last.addr = 18
    /\ last.val = 16385
    /\ MapRead(mem, rom, 18) = 3
    /\ MapRead(mem, rom, 16) = 16384
    /\ MapRead(last.pre, rom, 18) = 0

-----------------------------------------------------------------------------
(* The pure functions of utils.rs and decoder.rs.  A run starts with one
   16-bit word and applies one function to it. *)

Words == 0..65535

\* the second operands of add_s15: plus zero and minus zero
ZeroOperands == {0, 32767}

Applied(kind, b, out, out2, inst) ==
    /\ last.kind = "input"
    /\ last' = [kind |-> kind, w |-> last.w, b |-> b, out |-> out,
                out2 |-> out2, inst |-> inst]
    /\ UNCHANGED <<cpu, mem, per, rom, build, panicked, codec>>

\* add_s15(w, b) for a 15-bit w
ApplyAddS15(b) ==
    /\ last.w < 32768
    /\ Applied("add_s15", b, add_s15(last.w, b), 0, NoInst)

\* adjust_overflow(w), and adjust_overflow of the result
ApplyAdjustOverflow ==
    \E r \in {adjust_overflow(last.w)} :
        Applied("adjust_overflow", 0, r, adjust_overflow(r), NoInst)

\* decoder(0, w)
ApplyDecoder == Applied("decoder", 0, 0, 0, decoder(0, last.w))

InitFn ==
    /\ rom = EmptyArray
    /\ build = [overflow_checks |-> FALSE]
    /\ cpu = CpuFields
    /\ mem = MemoryMapNew
    /\ per = PeripheralsNew
    /\ panicked = FALSE
    /\ \E w \in Words :
          last = [kind |-> "input", w |-> w, b |-> 0, out |-> 0, out2 |-> 0,
                  inst |-> NoInst]
    /\ codec = CodecIdle

NextFn ==
    \/ \E b \in ZeroOperands : ApplyAddS15(b)
    \/ ApplyAdjustOverflow
    \/ ApplyDecoder

SpecFn == InitFn /\ [][NextFn]_vars

\* C22 as stated: add_s15(a, 0) = a mod 2^15 and add_s15(a, 0x7FFF) = a for
\* every a in [0, 2^15)
C22_AddZeroIdentity ==
    last.kind = "add_s15" =>
        /\ last.b = 0 => last.out = last.w % 32768
        /\ last.b = 32767 => last.out = last.w

\* C22: add_s15(a, 0) = a for every a in [0, 2^15); add_s15(a, 0x7FFF) = a
\* for every a in [1, 2^15), and add_s15(0, 0x7FFF) = 0x7FFF: plus zero and
\* minus zero sum to minus zero
C22_AddZeroIdentityButZero ==
    last.kind = "add_s15" =>
        /\ last.b = 0 => last.out = last.w % 32768
        /\ (last.b = 32767 /\ last.w # 0) => last.out = last.w
        /\ (last.b = 32767 /\ last.w = 0) => last.out = 32767

\* add_s15(0, 0x7FFF)
C22_Witness ==
    /\ last.kind = "add_s15"
    /\ last.w = 0
    /\ last.b = 32767
    /\ last.out = 32767

\* add_s15(5, 0x7FFF) = 5, through the carry
C22_WitnessCarry ==
    /\ last.kind = "add_s15"
    /\ last.w = 5
    /\ last.b = 32767
    /\ last.out = 5

\* the top two bits of a 16-bit word, as a number 0..3
TopTwo(v) == (v \div 16384) % 4

\* C23: adjust_overflow(v) is v | 0xC000 when the top two bits of v are 10,
\* v & 0x3FFF when they are 01 and v otherwise; applying it twice equals
\* applying it once, and the top two bits of the result never differ
C23_AdjustOverflow ==
    last.kind = "adjust_overflow" =>
        /\ last.out = CASE TopTwo(last.w) = 2 -> last.w + 16384
                        [] TopTwo(last.w) = 1 -> last.w - 16384
                        [] OTHER -> last.w
        /\ last.out2 = last.out
        /\ TopTwo(last.out) \in {0, 3}

\* adjust_overflow(0x8001) = 0xC001
C23_Witness ==
    /\ last.kind = "adjust_overflow"
    /\ last.w = 32769
    /\ last.out = 49153
    /\ last.out2 = 49153

\* adjust_overflow(0x4001) = 0x0001
C23_WitnessPositive ==
    /\ last.kind = "adjust_overflow"
    /\ last.w = 16385
    /\ last.out = 1

\* the fields of a word, by arithmetic
WordOp(w) == (w \div 4096) % 8

WordLow(w) == w % 4096

WordQc(w) == (w \div 1024) % 4

WordPc(w) == (w \div 512) % 8

\* the basic decode table: the mnemonic of a word with bit 15 clear
BasicTable(w) ==
    CASE WordOp(w) = 0 ->
            CASE WordLow(w) = 3 -> "RELINT"
              [] WordLow(w) = 4 -> "INHINT"
              [] WordLow(w) = 6 -> "EXTEND"
              [] OTHER -> "TC"
      [] WordOp(w) = 1 -> IF WordQc(w) = 0 THEN "CCS" ELSE "TCF"
      [] WordOp(w) = 2 -> <<"DAS", "LXCH", "INCR", "ADS">>[WordQc(w) + 1]
      [] WordOp(w) = 3 -> "CA"
      [] WordOp(w) = 4 -> "CS"
      [] WordOp(w) = 5 ->
            IF WordLow(w) = 15 THEN "RESUME"
            ELSE <<"INDEX", "DXCH", "TS", "XCH">>[WordQc(w) + 1]
      [] WordOp(w) = 6 -> "AD"
      [] WordOp(w) = 7 -> "MASK"

\* the extended decode table: the mnemonic of a word with bit 15 set, "" where
\* the table has no entry
ExtendedTable(w) ==
    CASE WordOp(w) = 0 ->
            <<"READ", "WRITE", "RAND", "WAND", "ROR", "WOR", "RXOR",
              "EDRUPT">>[WordPc(w) + 1]
      [] WordOp(w) = 2 ->
            IF WordQc(w) = 2 THEN "AUG" ELSE IF WordQc(w) = 3 THEN "DIM" ELSE ""
      [] WordOp(w) = 3 -> "DCA"
      [] WordOp(w) = 4 -> "DCS"
      [] WordOp(w) = 5 -> "INDEX"
      [] WordOp(w) = 6 -> IF WordQc(w) = 0 THEN "SU" ELSE "BZMF"
      [] WordOp(w) = 7 -> "MP"
      [] OTHER -> ""

TableMnemonic(w) == IF w >= 32768 THEN ExtendedTable(w) ELSE BasicTable(w)

TwoCycleMnemonics == {"CA", "CS", "TS", "AD", "WRITE"}

\* C25: decoder(pc, word) reads the extended table iff bit 15 of the word is
\* set, and gives the mnemonic the table assigns to opcode bits 12-14 and the
\* extrabits, with a declared cycle count of 2 for CA, CS, TS, AD and WRITE
\* and 1 otherwise
C25_DecodeTables ==
    (last.kind = "decoder" /\ TableMnemonic(last.w) # "") =>
        /\ last.inst.ok
        /\ last.inst.mnem = TableMnemonic(last.w)
        /\ last.inst.mct = IF last.inst.mnem \in TwoCycleMnemonics THEN 2 ELSE 1
        /\ last.inst.data = last.w

\* the extended WRITE 0o11 decodes as WRITE with 2 cycles
C25_Witness ==
    /\ last.kind = "decoder"
    /\ last.w = 32768 + 512 + 9
    /\ last.inst.mnem = "WRITE"
    /\ last.inst.mct = 2

\* the same low 15 bits without bit 15 decode from the basic table
C25_WitnessBasic ==
    /\ last.kind = "decoder"
    /\ last.w = 20480 + 15
    /\ last.inst.mnem = "RESUME"
    /\ last.inst.mct = 1

\* the words for which the decoder is said to fail: extended opcode 2 with
\* bits 10-11 equal to 0 or 1
UnmatchedExtrabits(w) == w >= 32768 /\ WordOp(w) = 2 /\ WordQc(w) \in {0, 1}

\* C26: for every 16-bit word the decoder returns either an error and no
\* descriptor or a descriptor with an assigned mnemonic, never INVALID; the
\* error is returned exactly for extended opcode 2 with bits 10-11 equal to 0
\* or 1, and every basic-mode word decodes
C26_DecodeTotal ==
    last.kind = "decoder" =>
        /\ last.inst.ok => last.inst.mnem # "INVALID"
        /\ ~last.inst.ok <=> UnmatchedExtrabits(last.w)
        /\ last.w < 32768 => last.inst.ok

\* the parts of C26 other than the assigned mnemonic
C26_DecodeErrors ==
    last.kind = "decoder" =>
        /\ ~last.inst.ok <=> UnmatchedExtrabits(last.w)
        /\ last.w < 32768 => last.inst.ok

\* the descriptors returned with the placeholder mnemonic are those of
\* extended opcode 1
C26_InvalidOnlyOpcodeOne ==
    (last.kind = "decoder" /\ last.inst.ok) =>
        (last.inst.mnem = "INVALID" <=> (last.w >= 32768 /\ WordOp(last.w) = 1))

-----------------------------------------------------------------------------
(* Channel writes.  The host loads the accumulator and runs WRITE, WAND and
   WOR (instructions.rs 330-393) with Cpu::execute, or GOJ with step(); last
   keeps the calls the channel writes made, in order. *)

\* at most this many host calls in one run
MaxIoOps == 2

\* L, DSALMOUT, CHAN32, CHAN34, 0o163 and the first channel beyond the port
\* array
IoChannels == {1, 9, 26, 28, 115, 256}

WAND(ch) == 1536 + ch

IoWriteMnemonics == {"WRITE", "WAND", "WOR"}

\* the channel instructions as step_programmed decodes them after EXTEND
IoInsts ==
    {decoder(0, 32768 + w) :
        w \in {WRITE(ch) : ch \in IoChannels} \cup {WAND(ch) : ch \in IoChannels}
                \cup {WOR(ch) : ch \in IoChannels}}

\* step() with GOJ at the head of the queue
GojIo ==
    /\ UnitReady
    /\ \E X \in {step([Machine EXCEPT !.c.unprog = <<"GOJ">>])} :
          ApplyUnit(X, "goj", NoInst)

NextIo ==
    /\ last.n < MaxIoOps
    /\ \/ \E v \in AccValues : HostWrite(REGISTER_ACCUMULATOR, v)
       \/ \E inst \in IoInsts : Exec(inst)
       \/ GojIo

SpecIo == InitUnit /\ [][NextIo]_vars

\* the positions of the log at which write_io is entered
Issued == {i \in 1..Len(last.calls) : last.calls[i].to = "write_io"}

\* the calls of the write entered at position i: up to the next write or the
\* end of the log, the clock update left out
CallsOf(i) ==
    LET ends == {j \in Issued : j > i} \cup {Len(last.calls) + 1}
        stop == CHOOSE j \in ends : \A k \in ends : j <= k
    IN  SelectSeq(SubSeq(last.calls, i + 1, stop - 1), LAMBDA c : c.to # "timers")

\* a write of value to port reaching both peripherals and then the port
\* array, CHAN32 reaching the peripherals only
MirroredThenStored(port, value) ==
    <<Call("display", port, value), Call("downlink", port, value)>>
        \o (IF port = 26 THEN <<>> ELSE <<Call("port_map", port, value)>>)

ChannelWriter ==
    \/ last.kind \in {"execute", "panic"} /\ last.inst.mnem \in IoWriteMnemonics
    \/ last.kind = "goj"

\* C24: every channel write the CPU issues in WRITE, WAND, WOR, GOJ and
\* restart, whatever the channel, is passed to write(channel, value) of the
\* display and of the downlink and only then stored in the port array; a
\* write to CHAN32 is passed to both and leaves the port array as it was
C24_WritesMirrored ==
    ChannelWriter =>
        /\ \A i \in Issued :
              CallsOf(i) = MirroredThenStored(last.calls[i].port, last.calls[i].value)
        /\ (last.kind = "execute" /\ io_port(last.inst.data) = 26)
              => mem.port_map = last.pre.mem.port_map
        /\ last.kind # "panic"

\* the same for the channels other than L, Q and those beyond the port array
C24_WritesMirroredWithinArray ==
    ChannelWriter =>
        /\ \A i \in Issued :
              last.calls[i].port \notin {1, 2} \cup {256}
                => CallsOf(i) = MirroredThenStored(last.calls[i].port,
                                                   last.calls[i].value)
        /\ (last.kind = "execute" /\ io_port(last.inst.data) = 26)
              => mem.port_map = last.pre.mem.port_map
        /\ (last.kind = "execute" /\ io_port(last.inst.data) \in {9, 28, 115})
              => Get(mem.port_map, io_port(last.inst.data))
                    = last.calls[Len(last.calls)].value

\* WRITE 0o34 of 5 reaches the downlink, which queues a packet, and the port
\* array
C24_SeenMirrored ==
    /\ last.kind = "execute"
    /\ last.inst.mnem = "WRITE"
    /\ io_port(last.inst.data) = 28
    /\ last.calls = <<Call("write_io", 28, 5), Call("timers", 28, 5),
                      Call("display", 28, 5), Call("downlink", 28, 5),
                      Call("port_map", 28, 5)>>
    /\ Len(per.downlink.tx) = Len(last.pre.per.downlink.tx) + 1
    /\ Get(mem.port_map, 28) = 5

\* WRITE 0o1 goes to the L register only
C24_SeenRegisterOnly ==
    /\ last.kind = "execute"
    /\ last.inst.mnem = "WRITE"
    /\ last.calls = <<Call("write_io", 1, 5), Call("regs", 1, 5)>>
    /\ mem.port_map = last.pre.mem.port_map
    /\ per = last.pre.per

\* GOJ issues its eleven writes
C24_SeenGoj ==
    /\ last.kind = "goj"
    /\ Cardinality(Issued) = 11

\* WRITE 0o400 reaches both peripherals and then panics on the port array
C24_SeenOutOfBounds ==
    /\ last.kind = "panic"
    /\ last.inst.mnem = "WRITE"
    /\ last.calls = <<Call("write_io", 256, 5), Call("display", 256, 5),
                      Call("downlink", 256, 5), Call("panic", 256, 5)>>

-----------------------------------------------------------------------------
(* The extend latch, TC and TCF in running programs (specification Spec) *)

Executed(m) == last.kind = "exec" /\ last.inst.mnem = m

\* C27: EXTEND sets the extend flag and clears the index at cost 1; only
\* EXTEND sets the flag; no interrupt is dispatched by a step that starts with
\* the flag set; the step that executes the instruction after EXTEND, when
\* that is neither EXTEND nor INDEX, ends with the flag clear; an instruction
\* is decoded from the extended table exactly when the flag was set
C27_ExtendLatch ==
    /\ Executed("EXTEND") =>
          /\ cpu.ec_flag
          /\ cpu.idx_val = 0
          /\ last.cycles = 1
    /\ (cpu.ec_flag /\ ~last.pre.c.ec_flag) => Executed("EXTEND")
    /\ (Stepped /\ last.pre.c.ec_flag) => (last.kind = "exec" /\ ~Dispatched)
    /\ (last.kind = "exec" /\ last.pre.c.ec_flag
            /\ last.inst.mnem \notin {"EXTEND", "INDEX"}) => ~cpu.ec_flag
    /\ last.kind = "exec" => (is_extended(last.inst.data) <=> last.pre.c.ec_flag)

\* the instruction after EXTEND runs while an enabled interrupt is pending,
\* and leaves the flag clear
C27_Witness ==
    /\ last.kind = "exec"
    /\ last.pre.c.ec_flag
    /\ last.pre.c.gint
    /\ ~last.pre.c.is_irupt
    /\ last.pre.c.rupt # 0
    /\ last.inst.mnem = "MP"
    /\ ~cpu.ec_flag
    /\ cpu.rupt = last.pre.c.rupt

\* the 12-bit target of the instruction just executed
Target == last.inst.data % 4096

\* C28: TC t fetched from p writes p + 1, the value PC holds when it runs,
\* into register 2, sets PC to t with IR the word prefetched from t, clears
\* the extend flag and costs 1; TCF t sets PC to t with IR prefetched, clears
\* the extend flag, leaves register 2 as it was and costs 1.  For TC 2 the
\* word prefetched is the one register 2 held when PC was set.
C28_TcAndTcf ==
    /\ Executed("TC") =>
          /\ NowRead(REGISTER_RETURN) = (last.inst.pc + 1) % 4096
          /\ last.inst.pc = PreRead(REGISTER_COUNTER)
          /\ NowRead(REGISTER_COUNTER) = Target
          /\ cpu.ir = IF Target = REGISTER_RETURN
                      THEN PreRead(REGISTER_RETURN) ELSE NowRead(Target)
          /\ ~cpu.ec_flag
          /\ last.cycles = 1
    /\ Executed("TCF") =>
          /\ NowRead(REGISTER_COUNTER) = Target
          /\ cpu.ir = NowRead(Target)
          /\ ~cpu.ec_flag
          /\ NowRead(REGISTER_RETURN) = PreRead(REGISTER_RETURN)
          /\ mem.regs.registers[REGISTER_RETURN]
                = last.pre.mem.regs.registers[REGISTER_RETURN]
          /\ last.cycles = 1

\* the call at MainAt + 1 has run: register 2 holds MainAt + 2 and the routine
\* is entered
C28_Witness ==
    /\ Executed("TC")
    /\ last.inst.pc = MainAt + 1
    /\ Target = MainAt + 3
    /\ NowRead(REGISTER_RETURN) = MainAt + 2
    /\ PreRead(REGISTER_RETURN) # MainAt + 2
    /\ NowRead(REGISTER_COUNTER) = MainAt + 3
    /\ cpu.ir = CA(DataAt + 2)

\* the return: TC 2 leaves in IR the word register 2 held, a TC to the caller
C28_WitnessReturn ==
    /\ Executed("TC")
    /\ Target = REGISTER_RETURN
    /\ cpu.ir = MainAt + 2
    /\ NowRead(REGISTER_RETURN) = MainAt + 5

\* a TCF taken after the call has set register 2
C28_WitnessTcf ==
    /\ Executed("TCF")
    /\ Target = MainAt + 1
    /\ NowRead(REGISTER_RETURN) = 3

-----------------------------------------------------------------------------
(* INCR and DIM.  The host loads the accumulator and the word at 0o100 with
   Cpu::write and runs INCR and DIM with Cpu::execute; last keeps the word
   that 0o100 held when the present run of DIMs began and how many DIMs have
   run since. *)

\* at most this many host calls in one run
MaxCountOps == 4

\* +0, small positive words, the positive maximum, -3 and -0
CountWords == {0, 2, 3, 16383, 32764, 32767}

\* the positive maximum and -0 of the 16-bit accumulator, and a small value
CountAccs == {5, 32767, 65535}

\* DIM k after EXTEND
DIM(k) == 32768 + 8192 + 3072 + k

DimInst == decoder(0, DIM(OperandAt))

IncrInsts ==
    {decoder(0, INCR(k)) : k \in {REGISTER_ACCUMULATOR, REGISTER_MULTIPLIER, OperandAt}}

CountReady == ~panicked /\ last.n < MaxCountOps

\* the outcome X of a call becomes the state; dims is the number of DIMs run
\* since 0o100 was last set otherwise
ApplyCount(X, kind, inst, dims) ==
    /\ ~X.panic
    /\ cpu' = X.c
    /\ mem' = X.mem
    /\ per' = X.per
    /\ last' = [kind |-> kind, inst |-> inst, cycles |-> X.cycles,
                pre |-> Snapshot, n |-> last.n + 1,
                start |-> IF dims = 0 THEN MapRead(X.mem, rom, OperandAt)
                          ELSE last.start,
                dims |-> dims]
    /\ UNCHANGED <<rom, build, panicked, codec>>

\* Cpu::write(idx, val)
CountWrite(idx, val) ==
    /\ CountReady
    /\ \E X \in {Wr(Machine, idx, val)} : ApplyCount(X, "load", NoInst, 0)

\* Cpu::execute(&inst) with INCR
ExecIncr(inst) ==
    /\ CountReady
    /\ \E X \in {execute(Machine, inst)} : ApplyCount(X, "execute", inst, 0)

\* Cpu::execute(&inst) with DIM 0o100
ExecDim ==
    /\ CountReady
    /\ \E X \in {execute(Machine, DimInst)} :
          ApplyCount(X, "execute", DimInst, last.dims + 1)

InitCount ==
    /\ rom = ProgOverflow
    /\ build \in [overflow_checks : BOOLEAN]
    /\ cpu = CpuNew.c
    /\ mem = CpuNew.mem
    /\ per = CpuNew.per
    /\ panicked = FALSE
    /\ last = [kind |-> "init", inst |-> NoInst, cycles |-> 0,
               pre |-> [c |-> CpuNew.c, mem |-> CpuNew.mem, per |-> CpuNew.per],
               n |-> 0, start |-> 0, dims |-> 0]
    /\ codec = CodecIdle

NextCount ==
    \/ \E v \in CountWords : CountWrite(OperandAt, v)
    \/ \E v \in CountAccs : CountWrite(REGISTER_ACCUMULATOR, v)
    \/ \E inst \in IncrInsts : ExecIncr(inst)
    \/ ExecDim

SpecCount == InitCount /\ [][NextCount]_vars

\* the address field of INCR and DIM
LastRam == last.inst.data % 1024

\* the circular increment of a word of the given width
Incremented(v, width) ==
    IF v = width \div 2 - 1 THEN 0
    ELSE IF v = width - 1 THEN 1
    ELSE (v + 1) % width

\* C29: INCR k costs 2 and is a circular increment: a 15-bit slot goes from
\* 0o37777 to 0, from 0o77777 to 1 and otherwise from v to (v+1) & 0o77777;
\* the 16-bit accumulator goes from 0o077777 to 0, from 0o177777 to 1 and
\* otherwise from v to (v+1) & 0o177777
C29_IncrCircular ==
    Ran("INCR") =>
        /\ NowRead(LastRam)
              = Incremented(PreRead(LastRam),
                            IF LastRam \in {REGISTER_ACCUMULATOR, REGISTER_MULTIPLIER}
                            THEN 65536 ELSE 32768)
        /\ last.cycles = 2

\* the same for the 15-bit slot alone
C29_IncrCircularSlot ==
    (Ran("INCR") /\ LastRam = OperandAt) =>
        /\ NowRead(LastRam) = Incremented(PreRead(LastRam), 32768)
        /\ last.cycles = 2

\* the accumulator but for its positive maximum
C29_IncrCircularAcc ==
    (Ran("INCR") /\ LastRam \in {REGISTER_ACCUMULATOR, REGISTER_MULTIPLIER}
        /\ PreRead(LastRam) # 32767) =>
        /\ NowRead(LastRam) = Incremented(PreRead(LastRam), 65536)
        /\ last.cycles = 2

\* INCR of the accumulator at its positive maximum leaves it there
C29_SeenStuck ==
    /\ Ran("INCR")
    /\ LastRam = REGISTER_ACCUMULATOR
    /\ PreRead(REGISTER_ACCUMULATOR) = 32767
    /\ NowRead(REGISTER_ACCUMULATOR) = 32767

\* INCR of the slot at 0o37777 and at 0o77777, INCR of A at 0o177777
C29_SeenRollovers ==
    \/ Ran("INCR") /\ LastRam = OperandAt /\ PreRead(OperandAt) = 16383
          /\ NowRead(OperandAt) = 0
    \/ Ran("INCR") /\ LastRam = OperandAt /\ PreRead(OperandAt) = 32767
          /\ NowRead(OperandAt) = 1
    \/ Ran("INCR") /\ LastRam = REGISTER_ACCUMULATOR
          /\ PreRead(REGISTER_ACCUMULATOR) = 65535
          /\ NowRead(REGISTER_ACCUMULATOR) = 1

\* the magnitude of a 15-bit ones'-complement word
Magnitude(w) == IF w >= 16384 THEN 32767 - w ELSE w

\* what one DIM makes of a 15-bit word
Diminished(w) ==
    IF w \in {0, 32767} THEN w
    ELSE IF w >= 16384 THEN w + 1
    ELSE IF w = 1 THEN 32767
    ELSE w - 1

\* one DIM: cost 2, +0 and -0 unchanged, 1 added to a negative word, 1
\* subtracted from a positive one with 0 stored as -0
DimStep ==
    Ran("DIM") =>
        /\ last.cycles = 2
        /\ NowRead(OperandAt) = Diminished(PreRead(OperandAt))
        /\ PreRead(OperandAt) \notin {0, 32767}
              => Magnitude(NowRead(OperandAt)) = Magnitude(PreRead(OperandAt)) - 1
        /\ (PreRead(OperandAt) \notin {0, 1, 32767})
              => (NowRead(OperandAt) >= 16384 <=> PreRead(OperandAt) >= 16384)

\* C30 as stated: DIM steps as above, and repeated on any 15-bit word it
\* reaches negative zero after |value| executions and stays there
C30_DimReachesMinusZero ==
    /\ DimStep
    /\ (Ran("DIM") /\ last.dims >= Magnitude(last.start))
          => NowRead(OperandAt) = 32767

\* C30: DIM steps as above; repeated on any 15-bit word other than +0 it
\* reaches negative zero after |value| executions, not before, and stays
\* there; +0 stays +0
C30_DimReachesMinusZeroButZero ==
    /\ DimStep
    /\ (last.start # 0 /\ last.dims >= Magnitude(last.start))
          => NowRead(OperandAt) = 32767
    /\ (last.start # 0 /\ last.dims < Magnitude(last.start))
          => NowRead(OperandAt) # 32767
    /\ last.start = 0 => NowRead(OperandAt) = 0

\* three DIMs on +3 have reached negative zero
C30_Witness ==
    /\ Ran("DIM")
    /\ last.start = 3
    /\ last.dims = 3
    /\ PreRead(OperandAt) = 1
    /\ NowRead(OperandAt) = 32767

\* three DIMs on -3 have reached negative zero
C30_WitnessNegative ==
    /\ Ran("DIM")
    /\ last.start = 32764
    /\ last.dims = 3
    /\ PreRead(OperandAt) = 32766
    /\ NowRead(OperandAt) = 32767

\* DIM on +0 leaves +0
C30_WitnessZero ==
    /\ Ran("DIM")
    /\ last.start = 0
    /\ last.dims = 2
    /\ NowRead(OperandAt) = 0

(* ---------------------------------------------------------------------
   MP. The host sets A and the word at 0o100 with Cpu::write and runs MP
   0o100 with Cpu::execute.
   --------------------------------------------------------------------- *)

\* 16-bit accumulator values without overflow: +0, -0, +1, -1, +2, -2, +129,
\* the positive maximum and the negative maximum
MulAccs == {0, 65535, 1, 65534, 2, 65533, 129, 16383, 49152}

\* 15-bit operands: +0, -0, +1, -1, +3, +16000, the positive maximum, the
\* negative maximum
MulWords == {0, 32767, 1, 32766, 3, 16000, 16383, 16384}

MpInst == decoder(0, 32768 + MP(OperandAt))

\* at most this many host calls in one run
MaxMulOps == 3

NextMul ==
    /\ last.n < MaxMulOps
    /\ \/ \E v \in MulAccs : HostWrite(REGISTER_ACCUMULATOR, v)
       \/ \E v \in MulWords : HostWrite(OperandAt, v)
       \/ Exec(MpInst)

SpecMul == InitUnit /\ [][NextMul]_vars

\* the ones'-complement value of a 15-bit word
Value15(w) == IF w >= 16384 THEN w - 32767 ELSE w

\* the ones'-complement value of the pair of words upper, lower, whose sign
\* is the sign of upper
ValueDp(upper, lower) ==
    IF BitAnd(upper, 16384) # 0
    THEN 0 - ((16383 - (upper % 16384)) * 16384 + (16383 - (lower % 16384)))
    ELSE (upper % 16384) * 16384 + (lower % 16384)

\* the accumulator before the call has no overflow
PreNoOverflow == (PreRead(REGISTER_ACCUMULATOR) \div 16384) \in {0, 3}

\* the operands of the MP just run, as 15-bit words
MpA == PreRead(REGISTER_ACCUMULATOR) % 32768

MpM == PreRead(OperandAt)

\* C31: MP k from A = a without overflow and M[k] = m costs 3 and leaves in
\* A, sign-extended to 16 bits, and L a pair whose sign bits agree and whose
\* ones'-complement value is value(a) * value(m); a zero product is +0 in
\* both words when the signs of a and m agree or both are zero in magnitude,
\* and all ones in both words otherwise
C31_MpProduct ==
    (Ran("MP") /\ PreNoOverflow) =>
        /\ last.cycles = 3
        /\ NowRead(REGISTER_ACCUMULATOR)
              = SignExtended(NowRead(REGISTER_ACCUMULATOR) % 32768)
        /\ BitAnd(NowRead(REGISTER_ACCUMULATOR), 16384)
              = BitAnd(NowRead(REGISTER_LINK), 16384)
        /\ ValueDp(NowRead(REGISTER_ACCUMULATOR), NowRead(REGISTER_LINK))
              = Value15(MpA) * Value15(MpM)
        /\ Value15(MpA) * Value15(MpM) = 0 =>
              IF \/ BitAnd(MpA, 16384) = BitAnd(MpM, 16384)
                 \/ (Value15(MpA) = 0 /\ Value15(MpM) = 0)
              THEN /\ NowRead(REGISTER_ACCUMULATOR) = 0
                   /\ NowRead(REGISTER_LINK) = 0
              ELSE /\ NowRead(REGISTER_ACCUMULATOR) = 65535
                   /\ NowRead(REGISTER_LINK) = 32767

\* the negative maximum times the positive maximum
C31_Witness ==
    /\ Ran("MP")
    /\ MpA = 16384
    /\ MpM = 16383
    /\ ValueDp(NowRead(REGISTER_ACCUMULATOR), NowRead(REGISTER_LINK))
          = 0 - 16383 * 16383

\* +0 times -0 is +0
C31_WitnessZeros ==
    /\ Ran("MP")
    /\ PreRead(REGISTER_ACCUMULATOR) = 0
    /\ MpM = 32767
    /\ NowRead(REGISTER_ACCUMULATOR) = 0
    /\ NowRead(REGISTER_LINK) = 0

\* +2 times -0 is negative zero in both words
C31_WitnessMinusZero ==
    /\ Ran("MP")
    /\ PreRead(REGISTER_ACCUMULATOR) = 2
    /\ MpM = 32767
    /\ NowRead(REGISTER_ACCUMULATOR) = 65535
    /\ NowRead(REGISTER_LINK) = 32767

(* ---------------------------------------------------------------------
   Programs that enable, inhibit and take interrupts, run by step(). last
   also keeps whether RELINT or RESUME has been executed since construction.
   --------------------------------------------------------------------- *)

\* EDRUPT after EXTEND: extended opcode 0 with bits 9-11 equal to 7
EDRUPT == 3584

ProgEdrupt ==
    Program(<<RELINT, EXTEND, EDRUPT, INHINT, RELINT, TCF(MainAt + 3)>>)

\* several instructions run before the first RELINT
ProgLate ==
    Program(<<CA(DataAt + 2), INHINT, CA(DataAt + 1), RELINT, TCF(MainAt + 4)>>)

IntPrograms == {ProgEdrupt, ProgOverflow, ProgResume, ProgLate}

\* executed cycles after which the run is cut off
MaxIntCycles == 12

IntReady == ~panicked /\ cpu.total_cycles < MaxIntCycles

\* step()
StepInt ==
    /\ IntReady
    /\ \E X \in {step(Machine)} :
           IF X.panic
           THEN /\ panicked' = TRUE
                /\ last' = [last EXCEPT !.kind = "panic", !.inst = X.inst,
                                        !.cycles = 0, !.pre = Snapshot]
                /\ UNCHANGED <<cpu, mem, per>>
           ELSE /\ cpu' = X.c
                /\ mem' = X.mem
                /\ per' = X.per
                /\ last' = [kind |-> X.kind, inst |-> X.inst,
                            cycles |-> X.cycles, pre |-> Snapshot,
                            enabled |-> \/ last.enabled
                                        \/ /\ X.kind = "exec"
                                           /\ X.inst.mnem \in {"RELINT", "RESUME"}]
                /\ UNCHANGED panicked
    /\ UNCHANGED <<rom, build, codec>>

\* the host sets bit i of the public pending word
RaiseInt(i) ==
    /\ IntReady
    /\ BitAnd(cpu.rupt, Pow2(i)) = 0
    /\ cpu' = [cpu EXCEPT !.rupt = BitOr(@, Pow2(i))]
    /\ last' = [last EXCEPT !.kind = "host", !.inst = NoInst, !.cycles = 0,
                            !.pre = Snapshot]
    /\ UNCHANGED <<mem, per, rom, build, panicked, codec>>

InitInt ==
    /\ rom \in IntPrograms
    /\ build \in [overflow_checks : BOOLEAN]
    /\ cpu = CpuNew.c
    /\ mem = CpuNew.mem
    /\ per = CpuNew.per
    /\ panicked = FALSE
    /\ last = [kind |-> "init", inst |-> NoInst, cycles |-> 0,
               pre |-> [c |-> CpuNew.c, mem |-> CpuNew.mem, per |-> CpuNew.per],
               enabled |-> FALSE]
    /\ codec = CodecIdle

NextInt ==
    \/ StepInt
    \/ \E i \in HostRupts : RaiseInt(i)

SpecInt == InitInt /\ [][NextInt]_vars

\* INHINT clears the global interrupt enable and RELINT sets it, each at
\* cost 1
InhintRelint ==
    /\ Executed("INHINT") => (~cpu.gint /\ last.cycles = 1)
    /\ Executed("RELINT") => (cpu.gint /\ last.cycles = 1)

\* C32: EDRUPT executed through step() clears the global interrupt enable at
\* cost 3; INHINT clears it and RELINT sets it, each at cost 1
C32_EdruptInhintRelint ==
    /\ Executed("EDRUPT") => (~cpu.gint /\ last.cycles = 3)
    /\ InhintRelint

\* what holds of the claim: INHINT and RELINT
C32_InhintRelintOnly == InhintRelint /\ (Executed("EDRUPT") => last.cycles = 0)

\* EDRUPT has been executed with the enable set, and the enable is still set
C32_SeenEdrupt ==
    /\ Executed("EDRUPT")
    /\ last.pre.c.gint
    /\ cpu.gint
    /\ last.cycles = 0

C32_SeenInhint == Executed("INHINT") /\ last.pre.c.gint /\ ~cpu.gint

(* ---------------------------------------------------------------------
   The loads and sums that end with check_editing. The host sets the edit
   registers, A and the word at 0o100 with Cpu::write and runs CA, CS, AD,
   SU, DCA and DCS with Cpu::execute.
   --------------------------------------------------------------------- *)

\* at most this many host calls in one run
MaxLoadOps == 3

\* after EXTEND
SU(k) == 32768 + 24576 + k

DCA(k) == 32768 + 12288 + k

DCS(k) == 32768 + 16384 + k

\* the words the host writes: to each edit register, to A and to 0o100
LoadWrites ==
    {<<a, 16385>> : a \in EditAddrs}
        \cup {<<18, 21845>>, <<REGISTER_ACCUMULATOR, 5>>, <<OperandAt, 3>>}

\* DCA and DCS name the second word of their pair
LoadInsts ==
    {decoder(0, CA(k)) : k \in EditAddrs \cup {REGISTER_ACCUMULATOR, OperandAt}}
        \cup {decoder(0, CS(k)) : k \in {18, REGISTER_ACCUMULATOR, OperandAt}}
        \cup {decoder(0, AD(k)) : k \in {18, REGISTER_ACCUMULATOR, OperandAt}}
        \cup {decoder(0, SU(k)) : k \in {18, OperandAt}}
        \cup {decoder(0, DCA(k)) : k \in {18, OperandAt + 1}}
        \cup {decoder(0, DCS(k)) : k \in {19, OperandAt + 1}}

NextLoad ==
    /\ last.n < MaxLoadOps
    /\ \/ \E w \in LoadWrites : HostWrite(w[1], w[2])
       \/ \E inst \in LoadInsts : Exec(inst)

SpecLoad == InitUnit /\ [][NextLoad]_vars

\* an instruction that ends with check_editing has just run
RanLoad ==
    /\ last.kind = "execute"
    /\ last.inst.mnem \in {"CA", "CS", "AD", "SU", "DCA", "DCS"}

\* the addresses of the words it reads
Operands ==
    IF last.inst.mnem \in {"DCA", "DCS"} THEN {LastK - 1, LastK} ELSE {LastK}

\* every edit register among the operands holds its former word edited once
\* more
ReEdited ==
    \A k \in Operands \cap EditAddrs : NowRead(k) = Edited(k, PreRead(k))

\* C33: after CA, CS, AD, SU, DCA or DCS on an edit register the register
\* holds its former contents with the edit applied once more, CA 0o22 with v
\* in the register loads v into A and leaves cycle-left(v); an operand word
\* outside 0o20..0o23 is left unchanged
C33_ReEdit ==
    RanLoad =>
        /\ ReEdited
        /\ (last.inst.mnem = "CA" /\ LastK = 18) =>
              NowRead(REGISTER_ACCUMULATOR) = SignExtended(PreRead(18))
        /\ \A k \in Operands \ EditAddrs : NowRead(k) = PreRead(k)

\* C33 with the operand words that the instruction itself loads, A and L,
\* left out of the unchanged ones
C33_ReEditButTargets ==
    RanLoad =>
        /\ ReEdited
        /\ (last.inst.mnem = "CA" /\ LastK = 18) =>
              NowRead(REGISTER_ACCUMULATOR) = SignExtended(PreRead(18))
        /\ \A k \in Operands \ (EditAddrs \cup {REGISTER_ACCUMULATOR, REGISTER_LINK}) :
              NowRead(k) = PreRead(k)

\* CA 0o22 with 0x0003 in the register
C33_Witness ==
    /\ Ran("CA")
    /\ LastK = 18
    /\ PreRead(18) = 3
    /\ NowRead(REGISTER_ACCUMULATOR) = 3
    /\ NowRead(18) = 6

\* DCA of the pair 0o21, 0o22 with both registers loaded
C33_WitnessPair ==
    /\ Ran("DCA")
    /\ LastK = 18
    /\ PreRead(17) = 24576
    /\ PreRead(18) = 3
    /\ NowRead(17) = 28672
    /\ NowRead(18) = 6

\* AD on a word of erasable memory
C33_WitnessOutside ==
    /\ Ran("AD")
    /\ LastK = OperandAt
    /\ PreRead(OperandAt) = 3
    /\ NowRead(OperandAt) = 3

\* CS 0 complements its own operand
C33_SeenTarget ==
    /\ Ran("CS")
    /\ LastK = REGISTER_ACCUMULATOR
    /\ NowRead(REGISTER_ACCUMULATOR) # PreRead(REGISTER_ACCUMULATOR)

(* ---------------------------------------------------------------------
   The queue of unprogrammed sequences. No code of the repository queues
   one, so the entries are put into the queue between steps, up to the
   capacity of the Deque (cpu.rs 55), and step() takes them out.
   --------------------------------------------------------------------- *)

\* heapless::Deque<UnprogSequence, 8>
QueueCapacity == 8

\* the longest queue built
MaxQueue == 2

\* executed cycles after which the run is cut off
MaxQueueCycles == 6

QueueEntries == {"GOJ", "TCSAJ", "STORE", "RUPT", "PINC", "INOTLD"}

QueueReady == ~panicked /\ cpu.total_cycles < MaxQueueCycles

\* an entry is pushed at the back of the queue
Enqueue(e) ==
    /\ QueueReady
    /\ Len(cpu.unprog) < MaxQueue
    /\ Len(cpu.unprog) < QueueCapacity
    /\ cpu' = [cpu EXCEPT !.unprog = Append(@, e)]
    /\ last' = [last EXCEPT !.kind = "queue", !.inst = NoInst, !.cycles = 0,
                            !.pre = Snapshot]
    /\ UNCHANGED <<mem, per, rom, build, panicked, codec>>

StepQueue == QueueReady /\ StepInt

InitQueue == InitInt /\ rom = ProgEdrupt

NextQueue ==
    \/ \E e \in QueueEntries : Enqueue(e)
    \/ StepQueue
    \/ QueueReady /\ RaiseInt(4)

SpecQueue == InitQueue /\ [][NextQueue]_vars

\* the queue the step started from
PreQueue == last.pre.c.unprog

StepKinds == {"exec", "rupt", "unprog", "panic"}

\* C34: a step that starts with entries in the queue removes the front one
\* and no other, fetches and executes no programmed instruction, and returns
\* 2 for GOJ, TCSAJ, STORE, FETCH and RUPT and 1 for the others, which is
\* added to the cycle total; a programmed instruction is only run from an
\* empty queue
C34_QueueDrains ==
    /\ (last.kind \in StepKinds /\ PreQueue # <<>>) =>
          /\ last.kind = "unprog"
          /\ cpu.unprog = Tail(PreQueue)
          /\ last.inst = NoInst
          /\ cpu.tc_count + cpu.non_tc_count
                <= last.pre.c.tc_count + last.pre.c.non_tc_count
          /\ last.cycles = IF Head(PreQueue) \in {"GOJ", "TCSAJ", "STORE", "FETCH", "RUPT"}
                           THEN 2 ELSE 1
          /\ cpu.total_cycles = last.pre.c.total_cycles + last.cycles
    /\ last.kind \in {"exec", "rupt"} => PreQueue = <<>>

\* RUPT then PINC were queued and the step has taken RUPT
C34_Witness ==
    /\ last.kind = "unprog"
    /\ PreQueue = <<"RUPT", "PINC">>
    /\ cpu.unprog = <<"PINC">>
    /\ last.cycles = 2

\* the queue has run empty before any instruction was counted and the
\* program is fetched
C34_WitnessResumed ==
    /\ last.kind = "exec"
    /\ last.pre.c.total_cycles > 0
    /\ last.pre.c.non_tc_count + last.pre.c.tc_count = 0
    /\ PreQueue = <<>>

(* ---------------------------------------------------------------------
   The seven channel instructions over the 9-bit channel field. The host
   sets A with Cpu::write and runs them with Cpu::execute.
   --------------------------------------------------------------------- *)

\* at most this many host calls in one run
MaxChanOps == 3

\* named and unnamed channels inside the port array, its last slot, and
\* channels beyond it
ChanChannels == {0, 5, 11, 26, 115, 255, 256, 511}

\* READ, WRITE, RAND, WAND, ROR, WOR, RXOR are the extended opcode 0 with
\* bits 9-11 equal to 0..6
ChanInsts ==
    {decoder(0, 32768 + 512 * op + ch) : op \in 0..6, ch \in ChanChannels}

NextChan ==
    /\ last.n < MaxChanOps
    /\ \/ \E v \in {5, 32767} : HostWrite(REGISTER_ACCUMULATOR, v)
       \/ \E inst \in ChanInsts : Exec(inst)

SpecChan == InitUnit /\ [][NextChan]_vars

\* the channel of the instruction just handed to execute
LastChannel == last.inst.data % 512

\* C35: no channel instruction faults, whatever its 9-bit channel field
C35_ChannelAccessNeverFaults == last.kind # "panic"

\* what holds of the claim: only a channel beyond the 256 slots faults, and
\* READ of an unnamed channel inside the array loads the slot's word
C35_FaultsOnlyBeyondArray ==
    /\ last.kind = "panic" => LastChannel >= PORT_MAP_SIZE
    /\ (Ran("READ") /\ LastChannel \in {0, 255}) =>
          NowRead(REGISTER_ACCUMULATOR)
              = extend_sign_bits(Get(last.pre.mem.port_map, LastChannel))

\* READ 0o400 has faulted
C35_SeenReadFault ==
    /\ last.kind = "panic"
    /\ last.inst.mnem = "READ"
    /\ LastChannel = 256

\* WOR 0o777 has faulted
C35_SeenWriteFault ==
    /\ last.kind = "panic"
    /\ last.inst.mnem = "WOR"
    /\ LastChannel = 511

\* WRITE then READ of the last slot of the array
C35_SeenLastSlot ==
    /\ Ran("READ")
    /\ LastChannel = 255
    /\ NowRead(REGISTER_ACCUMULATOR) = 5

(* ---------------------------------------------------------------------
   The global interrupt enable. The programs are run by step(); between
   steps the host may raise an interrupt, call Cpu::reset, or have GOJ run.
   After reset and GOJ, last.enabled is false again.
   --------------------------------------------------------------------- *)

\* Cpu::reset()
ResetInt ==
    /\ IntReady
    /\ \E X \in {reset(Machine)} :
          /\ cpu' = X.c
          /\ mem' = X.mem
          /\ per' = X.per
          /\ last' = [kind |-> "reset", inst |-> NoInst, cycles |-> 0,
                      pre |-> Snapshot, enabled |-> FALSE]
    /\ UNCHANGED <<rom, build, panicked, codec>>

\* step() with GOJ at the head of the queue
GojInt ==
    /\ IntReady
    /\ \E X \in {step([Machine EXCEPT !.c.unprog = <<"GOJ">>])} :
          /\ ~X.panic
          /\ cpu' = X.c
          /\ mem' = X.mem
          /\ per' = X.per
          /\ last' = [kind |-> "goj", inst |-> NoInst, cycles |-> X.cycles,
                      pre |-> Snapshot, enabled |-> FALSE]
    /\ UNCHANGED <<rom, build, panicked, codec>>

\* executed cycles after which the run is cut off
MaxGateCycles == 7

NextGate ==
    /\ cpu.total_cycles < MaxGateCycles
    /\ \/ StepInt
       \/ RaiseInt(4)
       \/ ResetInt
       \/ GojInt

SpecGate == InitInt /\ [][NextGate]_vars

\* the step took the interrupt branch, raised the in-interrupt flag or
\* cleared a pending bit
Took ==
    /\ last.kind \in {"exec", "rupt", "unprog"}
    /\ \/ last.kind = "rupt"
       \/ cpu.is_irupt /\ ~last.pre.c.is_irupt
       \/ Bits(last.pre.c.rupt) \ Bits(cpu.rupt) # {}

\* C36: the downlink bit is pending from construction; the global enable is
\* false after construction, reset and GOJ, and is set only by a step that
\* executes RELINT or RESUME, so no interrupt is taken before one of them
\* has run; INHINT and the dispatch of an interrupt clear it
C36_EnableGate ==
    /\ last.kind = "init" => (~cpu.gint /\ 8 \in Bits(cpu.rupt))
    /\ last.kind \in {"reset", "goj"} => ~cpu.gint
    /\ (cpu.gint /\ ~last.pre.c.gint) =>
          (Executed("RELINT") \/ Executed("RESUME"))
    /\ cpu.gint => last.enabled
    /\ Took => last.enabled
    /\ Executed("INHINT") => ~cpu.gint
    /\ (last.kind = "rupt" /\ NowRead(REGISTER_COUNTER) # PreRead(REGISTER_COUNTER))
          => ~cpu.gint

\* five cycles have run with the downlink bit pending and nothing taken
C36_Witness ==
    /\ Executed("CA")
    /\ ~last.enabled
    /\ cpu.total_cycles >= 5
    /\ 8 \in Bits(cpu.rupt)

\* the downlink interrupt is taken once RELINT has run
C36_WitnessTaken ==
    /\ last.kind = "rupt"
    /\ last.enabled
    /\ NowRead(REGISTER_COUNTER) = 2048 + 32
    /\ ~cpu.gint
    /\ 8 \notin Bits(cpu.rupt)

\* reset with the enable set clears it
C36_WitnessReset ==
    /\ last.kind = "reset"
    /\ last.pre.c.gint
    /\ ~cpu.gint

\* GOJ with the enable set clears it
C36_WitnessGoj ==
    /\ last.kind = "goj"
    /\ last.pre.c.gint
    /\ ~cpu.gint

(* ---------------------------------------------------------------------
   Pending interrupts under SpecInt: the host raises T4 (4) and the manual
   interrupt (10) between steps.
   --------------------------------------------------------------------- *)

\* the pending bits the step cleared
Cleared == Bits(last.pre.c.rupt) \ Bits(cpu.rupt)

\* the step moved PC to the vector of i and cleared bit i and no other
TookVector(i) ==
    /\ NowRead(REGISTER_COUNTER) = 2048 + 4 * i
    /\ Cleared = {i}

\* a pending bit is cleared only by its own dispatch
PendingKept ==
    last.kind \in StepKinds =>
        \/ Cleared = {}
        \/ \E i \in 0..10 : last.kind = "rupt" /\ TookVector(i)

\* C37: a pending bit stays set until its own dispatch, and the in-interrupt
\* flag rises only in a step that moves PC to a vector and clears a pending
\* bit
C37_FlagOnlyOnDispatch ==
    /\ PendingKept
    /\ (last.kind \in StepKinds /\ cpu.is_irupt /\ ~last.pre.c.is_irupt) =>
          \E i \in 0..10 : TookVector(i)

\* what holds of the claim: no pending bit is lost, and the flag rises
\* without a dispatch only when no bit below 10 is pending
C37_FlagOnDispatchBelowTen ==
    /\ PendingKept
    /\ (last.kind \in StepKinds /\ cpu.is_irupt /\ ~last.pre.c.is_irupt) =>
          \/ \E i \in RuptScan : TookVector(i)
          \/ /\ Bits(last.pre.c.rupt) \cap RuptScan = {}
             /\ cpu.rupt = last.pre.c.rupt
             /\ NowRead(REGISTER_COUNTER) = PreRead(REGISTER_COUNTER)

\* the flag has risen with only the manual interrupt pending: nothing was
\* dispatched, the bit is still pending and the enable is still set
C37_SeenWedged ==
    /\ last.kind = "rupt"
    /\ cpu.is_irupt
    /\ cpu.gint
    /\ cpu.rupt = Pow2(10)
    /\ NowRead(REGISTER_COUNTER) = PreRead(REGISTER_COUNTER)

\* the program runs on with the flag set and the manual interrupt pending
C37_SeenStuckPending ==
    /\ last.kind = "exec"
    /\ last.pre.c.is_irupt
    /\ cpu.is_irupt
    /\ cpu.rupt = Pow2(10)
    /\ NowRead(REGISTER_COUNTER) \in MainAt..(MainAt + 16)

\* T4 taken at its vector
C37_SeenTaken == last.kind = "rupt" /\ TookVector(4) /\ cpu.is_irupt

(* ---------------------------------------------------------------------
   Interrupt entry and RESUME. The downlink handler loads A, counts in 0o100
   and resumes; the T4 handler changes register 0o15 before it resumes; the
   KEYRUPT1 handler is a bare RESUME. last.entry keeps the program counter
   and the instruction word of the step that was interrupted, what the
   dispatch left in registers 0o15 and 0o17, and how far the service has
   come: "in" the handler, "back" right after its RESUME,
   "next" one step later.
   --------------------------------------------------------------------- *)

ProgHandler ==
    Load(Load(Program(<<RELINT, CA(DataAt), AD(DataAt + 1), XCH(64),
                        TCF(MainAt + 1)>>),
              2048 + 32, <<CA(DataAt + 2), INCR(64), RESUME>>),
         2048 + 16, <<INCR(REGISTER_COUNTER_BACKUP), RESUME>>)

\* the interrupts the host raises: T4 and KEYRUPT1
HandlerRupts == {4, 5}

\* executed cycles after which the run is cut off
MaxResumeCycles == 12

ResumeReady == ~panicked /\ cpu.total_cycles < MaxResumeCycles

NoEntry ==
    [p |-> 0, c |-> 0, z |-> 0, b |-> 0, phase |-> "none", clean |-> FALSE,
     follows |-> FALSE, rp |-> 0, rc |-> 0]

\* the step from Machine to X moved the program counter to a vector
Entered(X) ==
    /\ X.kind \in {"rupt", "unprog"}
    /\ X.c.is_irupt
    /\ Rd(X, REGISTER_COUNTER) # Rd(Machine, REGISTER_COUNTER)

\* p, c and phase after the step from Machine to X
ServiceAfter(X) ==
    IF Entered(X)
    THEN [last.entry EXCEPT !.p = Rd(Machine, REGISTER_COUNTER),
                            !.c = calculate_instr_data(Machine),
                            !.z = Rd(X, REGISTER_COUNTER_BACKUP),
                            !.b = Rd(X, REGISTER_INSTRUCTION),
                            !.phase = "in", !.clean = FALSE]
    ELSE IF last.entry.phase = "in" /\ X.kind = "exec" /\ X.inst.mnem = "RESUME"
    THEN [last.entry EXCEPT
            !.phase = "back",
            !.clean = /\ Rd(Machine, REGISTER_COUNTER_BACKUP) = last.entry.z
                      /\ Rd(Machine, REGISTER_INSTRUCTION) = last.entry.b]
    ELSE IF last.entry.phase = "back"
    THEN [last.entry EXCEPT !.phase = "none", !.clean = FALSE]
    ELSE last.entry

\* last.entry after the step from Machine to X: follows says that the step
\* is the one after the RESUME of a handler that left 0o15 and 0o17 alone,
\* and rp, rc are the p and c of that service
EntryAfter(X) ==
    [ServiceAfter(X) EXCEPT
        !.follows = last.entry.phase = "back" /\ last.entry.clean,
        !.rp = last.entry.p,
        !.rc = last.entry.c]

\* step()
StepResume ==
    /\ ResumeReady
    /\ \E X \in {step(Machine)} :
          /\ ~X.panic
          /\ cpu' = X.c
          /\ mem' = X.mem
          /\ per' = X.per
          /\ last' = [kind |-> X.kind, inst |-> X.inst, cycles |-> X.cycles,
                      pre |-> Snapshot, entry |-> EntryAfter(X)]
    /\ UNCHANGED <<rom, build, panicked, codec>>

\* the host sets bit i of the public pending word
RaiseHandler(i) ==
    /\ ResumeReady
    /\ BitAnd(cpu.rupt, Pow2(i)) = 0
    /\ cpu' = [cpu EXCEPT !.rupt = BitOr(@, Pow2(i))]
    /\ last' = [last EXCEPT !.kind = "host", !.inst = NoInst, !.cycles = 0,
                            !.pre = Snapshot, !.entry.follows = FALSE]
    /\ UNCHANGED <<mem, per, rom, build, panicked, codec>>

InitResume ==
    /\ rom = ProgHandler
    /\ build \in [overflow_checks : BOOLEAN]
    /\ cpu = CpuNew.c
    /\ mem = CpuNew.mem
    /\ per = CpuNew.per
    /\ panicked = FALSE
    /\ last = [kind |-> "init", inst |-> NoInst, cycles |-> 0,
               pre |-> [c |-> CpuNew.c, mem |-> CpuNew.mem, per |-> CpuNew.per],
               entry |-> NoEntry]
    /\ codec = CodecIdle

NextResume ==
    \/ StepResume
    \/ \E i \in HandlerRupts : RaiseHandler(i)

SpecResume == InitResume /\ [][NextResume]_vars

\* the RESUME of a handler that left registers 0o15 and 0o17 alone has just
\* run
Resumed == last.kind = "exec" /\ last.entry.phase = "back" /\ last.entry.clean

\* the machine is as it was when the interrupt was taken
Restored ==
    /\ NowRead(REGISTER_COUNTER) = last.entry.p
    /\ cpu.ir = last.entry.c
    /\ cpu.idx_val = 0
    /\ ~cpu.is_irupt
    /\ cpu.gint

C38_WitnessResumed ==
    /\ Resumed
    /\ last.inst.pc = 2048 + 34
    /\ Restored

\* the step after a RESUME takes KEYRUPT1 instead of executing
C38_SeenTakenAgain ==
    /\ last.entry.follows
    /\ last.kind = "rupt"
    /\ NowRead(REGISTER_COUNTER) = 2048 + 20

\* the T4 handler changed register 0o15 and resumes one word further on
C38_SeenChangedBackup ==
    /\ last.kind = "exec"
    /\ last.entry.phase = "back"
    /\ ~last.entry.clean
    /\ NowRead(REGISTER_COUNTER) = last.entry.p + 1

(* ---------------------------------------------------------------------
   The cost step() returns, under SpecInt.
   --------------------------------------------------------------------- *)

\* the mnemonics Cpu::execute has an arm for (cpu.rs 301-334)
Handled ==
    {"AD", "ADS", "BZF", "CA", "CS", "DCA", "DCS", "DIM", "DV", "EXTEND",
     "INCR", "INHINT", "LXCH", "MP", "QXCH", "RELINT", "RESUME", "ROR", "RAND",
     "READ", "RXOR", "SU", "TC", "TCF", "WAND", "WOR", "WRITE", "XCH"}

\* the cost the step returned was added to the cycle total
CostAdded ==
    last.kind \in {"exec", "rupt", "unprog"} =>
        cpu.total_cycles = last.pre.c.total_cycles + last.cycles

\* C39: a step that executes an instruction returns at least 1 and adds it
\* to total_cycles, and a step returns 0 only when it dispatches an interrupt
C39_StepCosts ==
    /\ CostAdded
    /\ last.kind = "exec" => last.cycles >= 1
    /\ (last.kind \in {"exec", "rupt", "unprog"} /\ last.cycles = 0) =>
          \E i \in 0..10 : TookVector(i)

\* what holds of the claim: the cost is added, an instruction that execute
\* has an arm for costs at least 1, and a step returns 0 only from the
\* interrupt branch or for an instruction without an arm
C39_HandledStepCosts ==
    /\ CostAdded
    /\ (last.kind = "exec" /\ last.inst.mnem \in Handled) => last.cycles >= 1
    /\ (last.kind \in {"exec", "rupt", "unprog"} /\ last.cycles = 0) =>
          \/ last.kind = "rupt"
          \/ last.kind = "exec" /\ last.inst.mnem \notin Handled

\* EDRUPT was fetched and executed at no cost
C39_SeenFreeInstruction ==
    /\ Executed("EDRUPT")
    /\ last.cycles = 0
    /\ cpu.total_cycles = last.pre.c.total_cycles
    /\ NowRead(REGISTER_COUNTER) = PreRead(REGISTER_COUNTER) + 1

\* the run reaches the cycles at which it is cut off
C39_SeenTarget == cpu.total_cycles >= MaxIntCycles /\ rom = ProgEdrupt

(* ---------------------------------------------------------------------
   The downlink forwarder: ragc-peripherals/src/vagc/downrupt.rs. The CPU
   thread writes channels 0o34 and 0o35, which sends a packet into the
   unbounded channel per.downlink.tx; downrupt_thread binds its listener,
   accepts a client, and in a loop receives a packet and writes it to the
   client's stream until a write fails. The client connects and disconnects
   as it pleases. last keeps the position of the thread (last.fw), the
   packet it holds, the state of the connection, and the packets sent into
   the channel and written to a connected client, in order.
   --------------------------------------------------------------------- *)

\* the CPU writes at most this many words to the downlink channels
MaxDownWrites == 3

DownChannels == {28, 29}

\* TcpListener::bind(addr).unwrap(): the thread goes on to accept, or panics
\* and drops the receiver
Bind ==
    /\ last.fw = "bind"
    /\ \E to \in {"accept", "dead"} : last' = [last EXCEPT !.kind = "bind", !.fw = to]
    /\ UNCHANGED <<cpu, mem, per, rom, build, panicked, codec>>

\* a client connects and listener.incoming() yields its stream
Accept ==
    /\ last.fw = "accept"
    /\ last' = [last EXCEPT !.kind = "accept", !.fw = "recv", !.conn = "open"]
    /\ UNCHANGED <<cpu, mem, per, rom, build, panicked, codec>>

\* the client closes its end
Disconnect ==
    /\ last.conn = "open"
    /\ last' = [last EXCEPT !.kind = "disconnect", !.conn = "closed"]
    /\ UNCHANGED <<cpu, mem, per, rom, build, panicked, codec>>

\* rx.recv() returns the packet at the front of the channel
Recv ==
    /\ last.fw = "recv"
    /\ per.downlink.tx # <<>>
    /\ per' = [per EXCEPT !.downlink.tx = Tail(@)]
    /\ last' = [last EXCEPT !.kind = "recv", !.fw = "write",
                            !.msg = Head(per.downlink.tx)]
    /\ UNCHANGED <<cpu, mem, rom, build, panicked, codec>>

\* xa.write_all(&msg): to an open connection it succeeds; to one the client
\* has closed it fails, and the thread leaves the loop for the next client,
\* or the bytes are accepted locally and never reach the client
WriteAll ==
    /\ last.fw = "write"
    /\ \/ /\ last.conn = "open"
          /\ last' = [last EXCEPT !.kind = "write", !.fw = "recv",
                                  !.delivered = Append(@, last.msg)]
       \/ /\ last.conn = "closed"
          /\ \E to \in {"accept", "recv"} :
                last' = [last EXCEPT !.kind = "lost", !.fw = to]
    /\ UNCHANGED <<cpu, mem, per, rom, build, panicked, codec>>

\* the CPU thread writes value to a downlink channel: write_io, whose
\* DownruptPeriph::write sends the packet, and panics on the unwrap when the
\* receiver is gone
CpuDownWrite(ch, value) ==
    /\ ~panicked
    /\ Len(last.sent) < MaxDownWrites
    /\ \E X \in {write_io(Machine, ch, value)} :
          IF last.fw = "dead"
          THEN /\ panicked' = TRUE
               /\ last' = [last EXCEPT !.kind = "panic"]
               /\ UNCHANGED <<cpu, mem, per>>
          ELSE /\ cpu' = X.c
               /\ mem' = X.mem
               /\ per' = X.per
               /\ last' = [last EXCEPT
                             !.kind = "send",
                             !.sent = Append(@, generate_dsky_packet(ch, value))]
               /\ UNCHANGED panicked
    /\ UNCHANGED <<rom, build, codec>>

InitDown ==
    /\ rom = EmptyArray
    /\ build \in [overflow_checks : BOOLEAN]
    /\ cpu = CpuNew.c
    /\ mem = CpuNew.mem
    /\ per = CpuNew.per
    /\ panicked = FALSE
    /\ last = [kind |-> "init", fw |-> "bind", conn |-> "none",
               msg |-> <<0, 0, 0, 0>>, sent |-> <<>>, delivered |-> <<>>]
    /\ codec = CodecIdle

NextDown ==
    \/ Bind
    \/ Accept
    \/ Disconnect
    \/ Recv
    \/ WriteAll
    \/ \E ch \in DownChannels : CpuDownWrite(ch, Len(last.sent) + 1)

SpecDown == InitDown /\ [][NextDown]_vars

\* the packet the thread has received and not yet written
InHand == IF last.fw = "write" THEN <<last.msg>> ELSE <<>>

RECURSIVE IsSubsequence(_, _)
\* s is t with some elements left out
IsSubsequence(s, t) ==
    IF s = <<>> THEN TRUE
    ELSE IF t = <<>> THEN FALSE
    ELSE IF Head(s) = Head(t) THEN IsSubsequence(Tail(s), Tail(t))
    ELSE IsSubsequence(s, Tail(t))

\* C40: the packets enqueued are, in enqueue order, those written to a
\* client, the one the thread holds and those still in the channel: none is
\* dropped, repeated or reordered
C40_DeliveredExactlyOnce ==
    last.fw # "dead" => last.delivered \o InHand \o per.downlink.tx = last.sent

\* what holds of the claim: the packets written to a client are packets
\* enqueued, each at most once and in enqueue order, and what is still in
\* the channel is the end of what was enqueued
C40_DeliveredAtMostOnce ==
    last.fw # "dead" =>
        /\ IsSubsequence(last.delivered \o InHand \o per.downlink.tx, last.sent)
        /\ \E k \in 0..Len(last.sent) :
              per.downlink.tx = SubSeq(last.sent, k + 1, Len(last.sent))

\* a packet was taken from the channel and lost, and a later one delivered
C40_SeenDropped ==
    /\ Len(last.sent) = 3
    /\ last.delivered = <<last.sent[1], last.sent[3]>>
    /\ per.downlink.tx = <<>>
    /\ last.fw = "recv"

\* all three packets delivered in order
C40_SeenDelivered ==
    /\ Len(last.sent) = 3
    /\ last.delivered = last.sent
    /\ last.sent[1] # last.sent[2]

\* the write of the CPU thread panics once the forwarder is gone
C40_SeenSendPanic == panicked /\ last.fw = "dead"

====
